---- MODULE Spec2Model ----
(***************************************************************************)
(* Model of the table validator module of vxe-table                        *)
(* (src/packages/table/module/validator/hook.ts).                          *)
(*                                                                         *)
(* JavaScript runs one callback at a time.  An action of this model is one *)
(* callback (or a public call) run to completion; promise reactions that   *)
(* nothing else can observe between them are folded into the callback that *)
(* triggers them.  Callers and the host (custom validators, scrollToRow,   *)
(* handleEdit, the tooltip) are the environment: their calls and           *)
(* settlements interleave freely with the module's own callbacks.          *)
(***************************************************************************)
EXTENDS Integers, Sequences, FiniteSets, TLC

(***************************************************************************)
(* Bounds of the model.                                                    *)
(***************************************************************************)
\* number of data rows of the grid
NumRows == 3
\* number of validation sessions that may be in flight at once
MaxSessions == 2

Rows == 1 .. NumRows
Sessions == 1 .. MaxSessions

(***************************************************************************)
(* Values of cells.  A string is a sequence of one-character strings.      *)
(***************************************************************************)
Null == [t |-> "null"]
Undef == [t |-> "undefined"]
Str(s) == [t |-> "str", v |-> s]
Num(n) == [t |-> "num", v |-> n]
Arr(s) == [t |-> "arr", v |-> s]

\* Number(...) of a text that is no number
NaN == [nan |-> TRUE, v |-> 0]
Finite(n) == [nan |-> FALSE, v |-> n]
\* a rule's min or max: undefined, or a number
NoBound == [set |-> FALSE, v |-> 0]
Bound(n) == [set |-> TRUE, v |-> n]
NoPattern == "none"

Digits == <<"0", "1", "2", "3", "4", "5", "6", "7", "8", "9">>
IsDigit(c) == \E i \in 1 .. 10 : Digits[i] = c
DigitVal(c) == (CHOOSE i \in 1 .. 10 : Digits[i] = c) - 1

RECURSIVE NumToStr(_)
\* `${n}` of a non-negative integer
NumToStr(n) ==
  IF n < 10 THEN <<Digits[n + 1]>> ELSE NumToStr(n \div 10) \o <<Digits[(n % 10) + 1]>>

RECURSIVE Join(_)
\* Array.prototype.join(','), the text of an array
Join(s) ==
  IF s = <<>> THEN <<>>
  ELSE IF Len(s) = 1 THEN s[1]
  ELSE s[1] \o <<",">> \o Join(Tail(s))

\* const strVal = `${val}`
ToStr(val) ==
  CASE val.t = "null" -> <<"n", "u", "l", "l">>
    [] val.t = "undefined" -> <<"u", "n", "d", "e", "f", "i", "n", "e", "d">>
    [] val.t = "str" -> val.v
    [] val.t = "num" -> NumToStr(val.v)
    [] val.t = "arr" -> Join(val.v)

RECURSIVE DigitsToNum(_)
DigitsToNum(s) ==
  IF s = <<>> THEN 0 ELSE DigitsToNum(SubSeq(s, 1, Len(s) - 1)) * 10 + DigitVal(s[Len(s)])

\* Number(text): the empty text is 0, a run of digits its value, anything else NaN
StrToNumber(s) ==
  IF \A i \in 1 .. Len(s) : IsDigit(s[i]) THEN Finite(DigitsToNum(s)) ELSE NaN

\* const numVal = Number(val)
ToNumber(val) ==
  CASE val.t = "null" -> Finite(0)
    [] val.t = "undefined" -> NaN
    [] val.t = "num" -> Finite(val.v)
    [] val.t = "str" -> StrToNumber(val.v)
    [] val.t = "arr" -> StrToNumber(Join(val.v))

\* eqEmptyValue of ui/src/utils: null, undefined or the empty string
eqEmptyValue(val) == val.t \in {"null", "undefined"} \/ (val.t = "str" /\ val.v = <<>>)

\* RegExp.prototype.test for the patterns of the rule sets used here
PatternTest(pattern, text) ==
  CASE pattern = "digits" -> text # <<>> /\ \A i \in 1 .. Len(text) : IsDigit(text[i])
    [] OTHER -> TRUE

validREValue(pattern, text) ==
  IF pattern # NoPattern /\ ~PatternTest(pattern, text) THEN FALSE ELSE TRUE

validMaxValue(max, num) ==
  IF max.set /\ num > max.v THEN FALSE ELSE TRUE

\* validMinValue, were min never looked at
validMinValue_Never(min, num) == TRUE

validMinValue(min, num) ==
  IF min.set /\ num < min.v THEN FALSE ELSE TRUE

validRuleValue(rule, val, required) ==
  LET isArrType == rule.type = "array"
      isNumType == rule.type = "number"
      isStrType == rule.type = "string"
      strVal == ToStr(val)
  IN  IF ~validREValue(rule.pattern, strVal) THEN FALSE
      ELSE IF isArrType THEN
        IF val.t # "arr" THEN FALSE
        ELSE IF required /\ Len(val.v) = 0 THEN FALSE
        ELSE IF ~validMinValue(rule.min, Len(val.v)) THEN FALSE
        ELSE IF ~validMaxValue(rule.max, Len(val.v)) THEN FALSE
        ELSE TRUE
      ELSE IF isNumType THEN
        LET numVal == ToNumber(val)
        IN  IF numVal.nan THEN FALSE
            ELSE IF ~validMinValue(rule.min, numVal.v) THEN FALSE
            ELSE IF ~validMaxValue(rule.max, numVal.v) THEN FALSE
            ELSE TRUE
      ELSE
        IF isStrType /\ val.t # "str" THEN FALSE
        ELSE IF required /\ strVal = <<>> THEN FALSE
        ELSE IF ~validMinValue(rule.min, Len(strVal)) THEN FALSE
        ELSE IF ~validMaxValue(rule.max, Len(strVal)) THEN FALSE
        ELSE TRUE

\* checkRuleStatus, were the value of a rule that is not required checked
\* even when it is empty
checkRuleStatus_ChecksEmpty(rule, val) ==
  LET required == rule.required
      isEmptyVal == IF val.t = "arr" THEN Len(val.v) = 0 ELSE eqEmptyValue(val)
  IN  IF required THEN
        IF isEmptyVal THEN FALSE
        ELSE IF ~validRuleValue(rule, val, required) THEN FALSE
        ELSE TRUE
      ELSE
        IF ~validRuleValue(rule, val, required) THEN FALSE
        ELSE TRUE

checkRuleStatus(rule, val) ==
  LET required == rule.required
      isEmptyVal == IF val.t = "arr" THEN Len(val.v) = 0 ELSE eqEmptyValue(val)
  IN  IF required THEN
        IF isEmptyVal THEN FALSE
        ELSE IF ~validRuleValue(rule, val, required) THEN FALSE
        ELSE TRUE
      ELSE
        IF ~isEmptyVal /\ ~validRuleValue(rule, val, required) THEN FALSE
        ELSE TRUE

(***************************************************************************)
(* JavaScript objects are kept as sequences of [key, value] pairs in       *)
(* insertion order (Object.keys order); arrays are sequences.              *)
(***************************************************************************)
EmptyObj == <<>>
ObjKeys(o) == [i \in 1 .. Len(o) |-> o[i].key]
ObjHas(o, k) == \E i \in 1 .. Len(o) : o[i].key = k
ObjGet(o, k) == o[CHOOSE i \in 1 .. Len(o) : o[i].key = k].value
\* o[k] = v: an existing key keeps its place
ObjSet(o, k, v) ==
  IF ObjHas(o, k)
    THEN [i \in 1 .. Len(o) |-> IF o[i].key = k THEN [key |-> k, value |-> v] ELSE o[i]]
    ELSE Append(o, [key |-> k, value |-> v])
\* delete o[k]
ObjDelete(o, k) == SelectSeq(o, LAMBDA e : e.key # k)
\* Object.assign({}, a, b)
RECURSIVE ObjAssign(_, _)
ObjAssign(a, b) ==
  IF b = <<>> THEN a ELSE ObjAssign(ObjSet(a, b[1].key, b[1].value), Tail(b))
KeySet(o) == {o[i].key : i \in 1 .. Len(o)}
SeqIndexOf(list, x) == \E i \in 1 .. Len(list) : list[i] = x

(***************************************************************************)
(* Row and column identities and the keys of the error map.  Ids and keys  *)
(* are texts, kept as sequences of tokens; ":" is a token of its own.      *)
(***************************************************************************)
\* getRowid of table/src/util: the row's key, here the generated "row_<n>"
getRowid(row) == <<"row_" \o ToString(row.id)>>

\* `${getRowid($xeTable, row)}:${column.id}`
ValidKey(row, column) == getRowid(row) \o <<":">> \o column.id

RECURSIVE SplitFrom(_, _, _)
SplitFrom(text, sep, part) ==
  IF text = <<>> THEN <<part>>
  ELSE IF text[1] = sep THEN <<part>> \o SplitFrom(Tail(text), sep, <<>>)
  ELSE SplitFrom(Tail(text), sep, Append(part, text[1]))
\* String.prototype.split(sep)
Split(text, sep) == SplitFrom(text, sep, <<>>)
\* key.split(':')[n], undefined when the key has fewer parts
SplitPart(key, n) ==
  LET parts == Split(key, ":") IN IF n <= Len(parts) THEN parts[n] ELSE <<"undefined">>

(***************************************************************************)
(* The grid of the model: columns, rules, validators and data.             *)
(***************************************************************************)
ColA == [id |-> <<"col_1">>, field |-> "a"]
ColB == [id |-> <<"col_2">>, field |-> "b"]
ColC == [id |-> <<"col_3">>, field |-> "c"]
\* $xeTable.getColumns()
getColumns == <<ColA, ColB, ColC>>

\* A field-or-column argument: a field name or a column object.
Field(f) == [isField |-> TRUE, id |-> <<>>, field |-> f]
Column(c) == [isField |-> FALSE, id |-> c.id, field |-> c.field]
\* handleFieldOrColumn of table/src/util: a column is kept, a field name is
\* resolved to the column of that field
handleFieldOrColumn(fieldOrColumn) ==
  IF fieldOrColumn.isField
    THEN getColumns[CHOOSE i \in 1 .. Len(getColumns) : getColumns[i].field = fieldOrColumn.field]
    ELSE [id |-> fieldOrColumn.id, field |-> fieldOrColumn.field]

\* the options object of a rule, as class Rule copies it
MkRule(required, type, min, max, pattern, validator, trigger, content) ==
  [required |-> required, type |-> type, min |-> min, max |-> max, pattern |-> pattern,
   validator |-> validator, trigger |-> trigger, content |-> content]

\* a rule's validator: none, an inline function, or the name of a registered one
NoValidator == [given |-> FALSE, isString |-> FALSE, name |-> "none"]
Inline(fn) == [given |-> TRUE, isString |-> FALSE, name |-> fn]
Named(name) == [given |-> TRUE, isString |-> TRUE, name |-> name]
NoTrigger == "none"
RuleA == MkRule(TRUE, "none", NoBound, NoBound, NoPattern, NoValidator, NoTrigger, "a is required")
RuleB == MkRule(FALSE, "none", NoBound, NoBound, NoPattern, Inline("checkB"), NoTrigger, "b is invalid")
\* props.editRules when the grid configures rules: field -> rules
EditRules == [defined |-> TRUE,
              rules |-> <<[key |-> "a", value |-> <<RuleA>>], [key |-> "b", value |-> <<RuleB>>]>>]
\* props.editRules when the grid configures none
NoEditRules == [defined |-> FALSE, rules |-> <<>>]

\* The custom validator of field b, an inline function: "!" is refused at
\* once (an Error is returned), "?" needs a remote check (a promise is
\* returned), anything else is accepted (undefined is returned).
checkB(validParams) ==
  CASE validParams.cellValue = Str(<<"!">>) -> [k |-> "error", message |-> "b is refused"]
    [] validParams.cellValue = Str(<<"?">>) -> [k |-> "promise", message |-> ""]
    [] OTHER -> [k |-> "undefined", message |-> ""]

\* The rows of the grid.  Row 1 fails the built-in rule of a and has a
\* remote check on b, row 2 is refused by the validator of b, row 3 has
\* only the remote check; further rows repeat the three.
RowOf(n) ==
  [c |-> Null,
   a |-> IF n % 3 = 1 THEN Str(<<>>) ELSE Str(<<"x">>),
   b |-> IF n % 3 = 2 THEN Str(<<"!">>) ELSE Str(<<"?">>),
   id |-> n,
   isAggregate |-> FALSE,
   children |-> <<>>,
   mapChildren |-> <<>>]
\* A row of a tree, with two rows of the grid as its children, and the row
\* of a group of two rows, which is an aggregate row.  The cells of both
\* break the rules of a and of b.
TreeRow ==
  [RowOf(NumRows + 1) EXCEPT !.a = Str(<<>>), !.b = Str(<<"!">>),
                             !.children = <<RowOf(2), RowOf(NumRows)>>]
GroupRow ==
  [RowOf(NumRows + 2) EXCEPT !.a = Str(<<>>), !.b = Str(<<"!">>), !.isAggregate = TRUE,
                             !.mapChildren = <<RowOf(1), RowOf(NumRows)>>]
\* internalData.afterFullData
afterFullData == [n \in 1 .. NumRows |-> RowOf(n)]
\* $xeTable.getInsertRecords() and $xeTable.getUpdateRecords()
getInsertRecords == <<RowOf(NumRows)>>
getUpdateRecords == <<RowOf(2)>>
\* XEUtils.get(row, field)
CellValue(row, field) ==
  CASE field = "a" -> row.a
    [] field = "b" -> row.b
    [] OTHER -> row.c

(***************************************************************************)
(* State.                                                                  *)
(***************************************************************************)
VARIABLES
  editRules,        \* props.editRules
  msgMode,          \* computeValidOpts.value.msgMode
  autoPos,          \* computeValidOpts.value.autoPos
  removeRowMaps,    \* internalData.removeRowMaps, as the set of its row ids
  pendingRowMaps,   \* internalData.pendingRowMaps, as the set of its row ids
  treeConfig,       \* props.treeConfig is set
  isRowGroupStatus, \* reactData.isRowGroupStatus
  ruleCheck,        \* a call of checkRuleStatus: its rule, its value, its result
  cellCheck,        \* the call of validCellRules made for one cell that is in flight
  validErrorMaps,   \* reactData.validErrorMaps
  validRuleErr,     \* let validRuleErr: boolean, shared by every session
  sess,             \* the closure and promise chain of each beginValidate call
  lastClear         \* history: the clearValidate call just made, by the user or by
                    \* beginValidate, if it was the last step

vars == <<editRules, msgMode, autoPos, removeRowMaps, pendingRowMaps, treeConfig,
          isRowGroupStatus, ruleCheck, cellCheck, validErrorMaps, validRuleErr, sess,
          lastClear>>

(***************************************************************************)
(* Error map store.                                                        *)
(***************************************************************************)
\* an entry of the error map
ErrEntry(row, column, rule, content) ==
  [row |-> row, column |-> column, rule |-> rule, content |-> content]

\* handleErrMsgMode, were the mode not looked at
handleErrMsgMode_KeepsAll(validErrMaps) == validErrMaps

\* handleErrMsgMode(validErrMaps), lines 176-198
handleErrMsgMode(validErrMaps) ==
  IF msgMode = "single"
    THEN IF Len(validErrMaps) > 0 THEN <<validErrMaps[1]>> ELSE EmptyObj
    ELSE validErrMaps

\* the row list and the column list clearValidate makes of its arguments
ToList(arg) == IF arg.isArray THEN arg.list ELSE IF arg.given THEN <<arg.list[1]>> ELSE <<>>
NoArg == [isArray |-> FALSE, given |-> FALSE, list |-> <<>>]
One(x) == [isArray |-> FALSE, given |-> TRUE, list |-> <<x>>]
Many(xs) == [isArray |-> TRUE, given |-> TRUE, list |-> xs]

\* clearValidate, were the map left as it is when no argument is given
clearValidate_KeepsWithoutArguments(errorMaps, rows, fieldOrColumn) ==
  LET rowList == ToList(rows)
      fcList == ToList(fieldOrColumn)
  IN  IF msgMode = "single" THEN EmptyObj
      ELSE IF Len(rowList) > 0 \/ Len(fcList) > 0 THEN EmptyObj
      ELSE errorMaps

\* the deletion of lines 421-428, were every entry of a given row deleted
DeleteKeys_WholeRows(o, keys) ==
  SelectSeq(o, LAMBDA e : ~\E i \in 1 .. Len(keys) : SplitPart(keys[i], 1) = SplitPart(e.key, 1))

RECURSIVE DeleteKeys(_, _)
DeleteKeys(o, keys) ==
  IF keys = <<>> THEN o
  ELSE DeleteKeys(IF ObjHas(o, keys[1]) THEN ObjDelete(o, keys[1]) ELSE o, Tail(keys))

\* the keys of rowList x colList, rows outermost
RECURSIVE CrossKeys(_, _)
CrossKeys(rowList, colList) ==
  IF rowList = <<>> THEN <<>>
  ELSE [i \in 1 .. Len(colList) |-> ValidKey(rowList[1], colList[i])]
       \o CrossKeys(Tail(rowList), colList)

\* the value clearValidate(rows, fieldOrColumn) leaves in reactData.validErrorMaps
clearValidate(errorMaps, rows, fieldOrColumn) ==
  LET rowList == ToList(rows)
      fcList == ToList(fieldOrColumn)
      colList == [i \in 1 .. Len(fcList) |-> handleFieldOrColumn(fcList[i])]
  IN  IF msgMode = "single" THEN EmptyObj
      ELSE IF Len(rowList) > 0 /\ Len(colList) > 0 THEN
        DeleteKeys(errorMaps, CrossKeys(rowList, colList))
      ELSE IF Len(rowList) > 0 THEN
        LET rowIdList == [i \in 1 .. Len(rowList) |-> getRowid(rowList[i])]
        IN  SelectSeq(errorMaps, LAMBDA e : SeqIndexOf(rowIdList, SplitPart(e.key, 1)))
      ELSE IF Len(colList) > 0 THEN
        LET colidList == [i \in 1 .. Len(colList) |-> colList[i].id]
        IN  SelectSeq(errorMaps, LAMBDA e : SeqIndexOf(colidList, SplitPart(e.key, 2)))
      ELSE EmptyObj

(***************************************************************************)
(* Cell validation: validCellRules.                                        *)
(***************************************************************************)
\* what a custom validator returns: undefined, an Error, a promise, or
\* another value
RetUndefined == [k |-> "undefined", message |-> ""]
RetError(message) == [k |-> "error", message |-> message]
RetPromise == [k |-> "promise", message |-> ""]
\* a value that is neither an Error nor has a catch method: true, or 0
RetValue(truthy) == [k |-> IF truthy THEN "value" ELSE "falsy", message |-> ""]

\* validators.get(name) of the VxeUI registry: "refuse" and "remote" are
\* registered with a method, "bare" is registered without one, no other
\* name is registered
validatorsGet(name) ==
  CASE name = "refuse" -> [found |-> TRUE, hasMethod |-> TRUE, method |-> "retError"]
    [] name = "remote" -> [found |-> TRUE, hasMethod |-> TRUE, method |-> "retPromise"]
    [] name = "bare" -> [found |-> TRUE, hasMethod |-> FALSE, method |-> "none"]
    [] OTHER -> [found |-> FALSE, hasMethod |-> FALSE, method |-> "none"]

\* the call of an inline or registered validator function
CallFunction(fn, validParams) ==
  CASE fn = "checkB" -> checkB(validParams)
    [] fn = "retError" -> RetError("refused")
    [] fn = "retPromise" -> RetPromise
    [] fn = "retTrue" -> RetValue(TRUE)
    [] fn = "retZero" -> RetValue(FALSE)
    [] OTHER -> RetUndefined

\* the validator function of the rule is called, lines 491-506
CallsValidator(rule) ==
  IF rule.validator.isString
    THEN validatorsGet(rule.validator.name).found /\ validatorsGet(rule.validator.name).hasMethod
    ELSE TRUE

\* let customValid, lines 491-506
CustomValid(rule, validParams) ==
  IF rule.validator.isString
    THEN LET gvItem == validatorsGet(rule.validator.name)
         IN  IF gvItem.found /\ gvItem.hasMethod
               THEN CallFunction(gvItem.method, validParams)
               ELSE RetUndefined
    ELSE CallFunction(rule.validator.name, validParams)

\* new Rule(rule): the failure record of a built-in rule
BuiltinFailure(rule) ==
  [type |-> rule.type, trigger |-> rule.trigger, content |-> rule.content, rule |-> rule]
\* new Rule({ type: 'custom', trigger, content, rule: new Rule(rule) })
CustomFailure(rule, content) ==
  [type |-> "custom", trigger |-> rule.trigger, content |-> content, rule |-> rule]

\* the test of line 479, were every rule taken whatever its trigger is
RuleApplies_Always(validType, rule) == TRUE

\* validType === 'all' || !trigger || validType === trigger, lines 479 and 543
RuleApplies(validType, rule) ==
  validType = "all" \/ rule.trigger = NoTrigger \/ validType = rule.trigger

\* rules.forEach for one rule, were every truthy value a validator returns
\* that is no promise taken as a failure
ValidRule_ValueFails(acc, validType, rule, j, validParams) ==
  IF RuleApplies(validType, rule)
    THEN LET acc1 == [acc EXCEPT !.evaluated = Append(@, j)]
         IN  IF rule.validator.given
      THEN LET customValid == CustomValid(rule, validParams)
               acc2 == IF CallsValidator(rule) THEN [acc1 EXCEPT !.invoked = Append(@, j)]
                       ELSE acc1
           IN  IF customValid.k \in {"error", "value"}
                 THEN [acc2 EXCEPT !.ruleErr = TRUE,
                                   !.errorRules = Append(@, CustomFailure(rule, customValid.message))]
                 ELSE IF customValid.k = "promise"
                   THEN [acc2 EXCEPT !.pend = @ \cup {j}]
                   ELSE acc2
      ELSE IF ~checkRuleStatus(rule, validParams.cellValue)
             THEN [acc1 EXCEPT !.ruleErr = TRUE, !.errorRules = Append(@, BuiltinFailure(rule))]
             ELSE acc1
    ELSE acc

\* the part of rules.forEach that runs for one rule: acc holds errorRules,
\* the indexes of the rules whose promise is pending, and whether
\* validRuleErr was set; evaluated and invoked are history: the rules that
\* passed the test of line 479, and those whose validator was called
ValidRule(acc, validType, rule, j, validParams) ==
  IF RuleApplies(validType, rule)
    THEN LET acc1 == [acc EXCEPT !.evaluated = Append(@, j)]
         IN  IF rule.validator.given
      THEN LET customValid == CustomValid(rule, validParams)
               acc2 == IF CallsValidator(rule) THEN [acc1 EXCEPT !.invoked = Append(@, j)]
                       ELSE acc1
           IN  IF customValid.k = "error"
                 THEN [acc2 EXCEPT !.ruleErr = TRUE,
                                   !.errorRules = Append(@, CustomFailure(rule, customValid.message))]
                 ELSE IF customValid.k = "promise"
                   THEN [acc2 EXCEPT !.pend = @ \cup {j}]
                   ELSE acc2
      ELSE IF ~checkRuleStatus(rule, validParams.cellValue)
             THEN [acc1 EXCEPT !.ruleErr = TRUE, !.errorRules = Append(@, BuiltinFailure(rule))]
             ELSE acc1
    ELSE acc

RECURSIVE ValidRulesFrom(_, _, _, _, _, _)
ValidRulesFrom(acc, validType, rules, j, row, column) ==
  IF j > Len(rules) THEN acc
  ELSE ValidRulesFrom(
         ValidRule(acc, validType, rules[j], j,
                   [cellValue |-> acc.cellValue, row |-> row, column |-> column,
                    field |-> column.field]),
         validType, rules, j + 1, row, column)

\* The synchronous part of validCellRules(validType, row, column, val): the
\* failures found at once, the pending custom validators, and whether
\* validRuleErr was set.
validCellRules(validType, row, column, val) ==
  LET none == [errorRules |-> <<>>, pend |-> {}, ruleErr |-> FALSE, cellValue |-> val,
               evaluated |-> <<>>, invoked |-> <<>>]
  IN  IF editRules.defined /\ ObjHas(editRules.rules, column.field)
        THEN ValidRulesFrom(
               [none EXCEPT !.cellValue =
                  IF val = Undef THEN CellValue(row, column.field) ELSE val],
               validType, ObjGet(editRules.rules, column.field), 1, row, column)
        ELSE none

\* the rejection validCellRules ends with when errorRules is not empty
CellRejection(errorRules) == [rule |-> errorRules[1], rules |-> errorRules]

\* the catch callback of lines 514-517, were the failure put first
AsyncFailed_First(errorRules, rule, outcome) ==
  <<CustomFailure(rule, IF outcome = "rejectMessage" THEN "remote refused" ELSE rule.content)>>
    \o errorRules

\* errorRules after the catch callback of lines 514-517 ran for a promise
\* that rejected with a reason that has a message, or with one that has none
AsyncFailed(errorRules, rule, outcome) ==
  Append(errorRules,
         CustomFailure(rule, IF outcome = "rejectMessage" THEN "remote refused"
                             ELSE rule.content))

\* hasCellRules(type, row, column), lines 538-546
hasCellRules(type, row, column) ==
  /\ editRules.defined
  /\ ObjHas(editRules.rules, column.field)
  /\ \E j \in 1 .. Len(ObjGet(editRules.rules, column.field)) :
       RuleApplies(type, ObjGet(editRules.rules, column.field)[j])

(***************************************************************************)
(* Validation sessions: beginValidate.                                     *)
(*                                                                         *)
(* sess[s] is the closure of the s-th call and the state of its promise    *)
(* chain.  pc names the callback the chain waits for:                      *)
(*   "wait"    Promise.all(rowValidErrs) is pending                        *)
(*   "merged"  the then-callback of line 306 ran, nextTick is pending      *)
(*   "caught"  the chain is rejected, the catch of line 317 is pending     *)
(*   "scroll"  scrollToRow is pending      "edit"  handleEdit is pending   *)
(*   "tooltip" showValidTooltip's promise is pending                       *)
(*   "finish"  the nextTick of finish is pending                           *)
(*   "norules" the nextTick of line 356 is pending                         *)
(*   "done"    the returned promise is settled                             *)
(* since, failedBefore, rows and cols are history: the sessions that were  *)
(* pending when the call was made, whether an earlier session found a      *)
(* failure, and the rows and cols arguments of the call.                   *)
(***************************************************************************)
NoResult == [state |-> "pending", value |-> "none"]
Idle ==
  [pc |-> "idle", isFull |-> FALSE, cb |-> FALSE, validList |-> <<>>, columns |-> <<>>,
   cells |-> <<>>, validRest |-> EmptyObj,
   validErrMaps |-> EmptyObj, firstErrParams |-> <<>>, cbCalls |-> <<>>,
   result |-> NoResult, fx |-> <<>>, validToReject |-> "unread", since |-> {},
   failedBefore |-> FALSE, rows |-> [k |-> "undefined", list |-> <<>>], cols |-> <<>>]
AllCellsDone(q) == \A i \in 1 .. Len(q.cells) : q.cells[i].done
\* a session whose promise is settled and whose validators have all settled
\* holds no callback any more
Quiescent(q) == q.pc \in {"idle", "done"} /\ AllCellsDone(q)

\* the catch callback of a cell, were a failure that comes after the chain
\* has left Promise.all not recorded
CellSettled_DropsLate(q, i) ==
  LET cell == q.cells[i]
      q1 == [q EXCEPT !.cells[i].done = TRUE]
  IN  IF cell.errorRules = <<>> \/ (~q.isFull /\ q.pc # "wait") THEN q1
      ELSE
        LET rej == CellRejection(cell.errorRules)
            rest == [rule |-> rej.rule, rules |-> rej.rules, row |-> cell.row,
                     column |-> cell.column, field |-> cell.field]
            list == IF ObjHas(q.validRest, cell.field) THEN ObjGet(q.validRest, cell.field)
                    ELSE <<>>
            q2 == [q1 EXCEPT
                     !.validErrMaps = ObjSet(@, ValidKey(cell.row, cell.column),
                                             ErrEntry(cell.row, cell.column, rej.rule,
                                                      rej.rule.content)),
                     !.validRest = ObjSet(@, cell.field, Append(list, rest))]
        IN  IF ~q.isFull /\ q.pc = "wait"
              THEN [q2 EXCEPT !.pc = "caught", !.firstErrParams = <<rest>>]
              ELSE q2

\* The catch callback of lines 266-291 (or its absence of effect when the
\* cell passed), run when the promise of cell i settles.
CellSettled(q, i) ==
  LET cell == q.cells[i]
      q1 == [q EXCEPT !.cells[i].done = TRUE]
  IN  IF cell.errorRules = <<>> THEN q1
      ELSE
        LET rej == CellRejection(cell.errorRules)
            rest == [rule |-> rej.rule, rules |-> rej.rules, row |-> cell.row,
                     column |-> cell.column, field |-> cell.field]
            list == IF ObjHas(q.validRest, cell.field) THEN ObjGet(q.validRest, cell.field)
                    ELSE <<>>
            q2 == [q1 EXCEPT
                     !.validErrMaps = ObjSet(@, ValidKey(cell.row, cell.column),
                                             ErrEntry(cell.row, cell.column, rej.rule,
                                                      rej.rule.content)),
                     !.validRest = ObjSet(@, cell.field, Append(list, rest))]
        IN  IF ~q.isFull /\ q.pc = "wait"
              THEN [q2 EXCEPT !.pc = "caught", !.firstErrParams = <<rest>>]
              ELSE q2
\* whether that callback sets validRuleErr
CellSetsRuleErr(q, i) == q.cells[i].errorRules # <<>> /\ ~q.isFull

\* columns.forEach without the test of validRuleErr of line 263
RECURSIVE WalkColumns_IgnoresRuleErr(_, _, _, _, _)
WalkColumns_IgnoresRuleErr(st, row, columns, c, isFull) ==
  IF c > Len(columns) THEN st
  ELSE
    LET column == columns[c]
        field == column.field
    IN  IF ObjHas(editRules.rules, field)
          THEN LET r == validCellRules("all", row, column, Undef)
               IN  WalkColumns_IgnoresRuleErr(
                     [ruleErr |-> st.ruleErr \/ r.ruleErr,
                      cells |-> Append(st.cells,
                                  [row |-> row, column |-> column, field |-> field,
                                   pend |-> r.pend, errorRules |-> r.errorRules,
                                   done |-> FALSE])],
                     row, columns, c + 1, isFull)
          ELSE WalkColumns_IgnoresRuleErr(st, row, columns, c + 1, isFull)

\* columns.forEach of lines 261-294 for one row: st holds validRuleErr
\* and the cells checked so far
RECURSIVE WalkColumns(_, _, _, _, _)
WalkColumns(st, row, columns, c, isFull) ==
  IF c > Len(columns) THEN st
  ELSE
    LET column == columns[c]
        field == column.field
    IN  IF (isFull \/ ~st.ruleErr) /\ ObjHas(editRules.rules, field)
          THEN LET r == validCellRules("all", row, column, Undef)
               IN  WalkColumns(
                     [ruleErr |-> st.ruleErr \/ r.ruleErr,
                      cells |-> Append(st.cells,
                                  [row |-> row, column |-> column, field |-> field,
                                   pend |-> r.pend, errorRules |-> r.errorRules,
                                   done |-> FALSE])],
                     row, columns, c + 1, isFull)
          ELSE WalkColumns(st, row, columns, c + 1, isFull)

\* isAggregateRecord, were no row an aggregate row
isAggregateRecord_Never(row) == FALSE

\* $xeTable.isAggregateRecord(row)
isAggregateRecord(row) == row.isAggregate

\* handleVaild with the test of line 259 reading validRuleErr alone
handleVaild_IgnoresIsFull(st, row, columns, isFull) ==
  LET rowid == getRowid(row)
  IN  IF rowid \in removeRowMaps THEN st
      ELSE IF rowid \in pendingRowMaps THEN st
      ELSE IF isAggregateRecord(row) THEN st
      ELSE IF ~st.ruleErr THEN WalkColumns(st, row, columns, 1, isFull)
      ELSE st

\* handleVaild(row), lines 246-297
handleVaild(st, row, columns, isFull) ==
  LET rowid == getRowid(row)
  IN  IF rowid \in removeRowMaps THEN st
      ELSE IF rowid \in pendingRowMaps THEN st
      ELSE IF isAggregateRecord(row) THEN st
      ELSE IF isFull \/ ~st.ruleErr THEN WalkColumns(st, row, columns, 1, isFull)
      ELSE st

\* validList.forEach(handleVaild), line 304
RECURSIVE WalkRows(_, _, _, _)
WalkRows(st, validList, columns, isFull) ==
  IF validList = <<>> THEN st
  ELSE WalkRows(handleVaild(st, validList[1], columns, isFull), Tail(validList), columns, isFull)

\* the children XEUtils.eachTree finds in a row under the field it is given
ChildrenOf(row, children) ==
  IF children = "mapChildren" THEN row.mapChildren ELSE row.children

\* XEUtils.eachTree(validList, handleVaild, { children }): each row, then
\* its children
RECURSIVE eachTree(_, _, _, _, _)
eachTree(st, validList, children, columns, isFull) ==
  IF validList = <<>> THEN st
  ELSE eachTree(
         eachTree(handleVaild(st, validList[1], columns, isFull),
                  ChildrenOf(validList[1], children), children, columns, isFull),
         Tail(validList), children, columns, isFull)

\* the traversal of lines 298-305
Traverse(st, validList, columns, isFull) ==
  IF isRowGroupStatus THEN eachTree(st, validList, "mapChildren", columns, isFull)
  ELSE IF treeConfig THEN eachTree(st, validList, "children", columns, isFull)
  ELSE WalkRows(st, validList, columns, isFull)

\* The callbacks of the cells without a pending validator run, in walk
\* order, in the microtasks that follow the walk, before anything else of
\* the session; r carries the session and validRuleErr.
RECURSIVE SettleSyncCells(_, _)
SettleSyncCells(r, i) ==
  IF i > Len(r.q.cells) THEN r
  ELSE IF r.q.cells[i].pend = {}
    THEN SettleSyncCells([q |-> CellSettled(r.q, i),
                          ruleErr |-> r.ruleErr \/ CellSetsRuleErr(r.q, i)], i + 1)
    ELSE SettleSyncCells(r, i + 1)

\* the rows argument of the public methods
RowsTrue == [k |-> "true", list |-> <<>>]
RowsNone == [k |-> "undefined", list |-> <<>>]
RowsNull == [k |-> "null", list |-> <<>>]
RowsFunction == [k |-> "function", list |-> <<>>]
RowsOne(row) == [k |-> "row", list |-> <<row>>]
RowsArray(list) == [k |-> "array", list |-> list]

\* lines 217-233, were the whole data taken whatever rows is
ValidList_AlwaysFullData(rows) == afterFullData

\* let validList, lines 217-233
ValidList(rows) ==
  CASE rows.k = "true" -> afterFullData
    [] rows.k \in {"row", "array"} -> rows.list
    [] OTHER -> getInsertRecords \o getUpdateRecords

\* the sessions whose validators are still pending
Pending == {t \in Sessions : sess[t].pc # "idle" /\ ~AllCellsDone(sess[t])}

\* Whether a call may be made that is kept in sess[s]: s is the first
\* place that is free.  The caller makes a call when no session is in
\* flight or, when over is TRUE, while validators of a session are pending.
CanBegin(s, over) ==
  /\ sess[s].pc = "idle"
  /\ \A t \in Sessions : t < s => sess[t].pc # "idle"
  /\ (\A t \in Sessions : sess[t].pc = "idle") \/ (over /\ Pending # {})

\* sess once the call is made: since keeps the sessions that were pending then
Started(s, q, over) == [sess EXCEPT ![s] = [q EXCEPT !.since = Pending]]

\* line 245, were the columns of the grid taken whatever cols is
ColumnsInUse_AllColumns(cols) == getColumns

\* const columns = cols && cols.length ? cols : $xeTable.getColumns()
ColumnsInUse(cols) == IF Len(cols) > 0 THEN cols ELSE getColumns

\* beginValidate(rows, cols, cb, isFull), lines 209-361, up to the first await
beginValidate(s, rows, cols, cb, isFull, over) ==
  LET cb1 == IF rows.k = "function" THEN TRUE ELSE cb
      validList == ValidList(rows)
      cleared == clearValidate(validErrorMaps, NoArg, NoArg)
      new == [Idle EXCEPT !.isFull = isFull, !.cb = cb1, !.validList = validList,
                          !.failedBefore = sess[s].failedBefore, !.rows = rows,
                          !.cols = cols]
  IN  /\ CanBegin(s, over)
      /\ lastClear' = <<[rows |-> NoArg, fieldOrColumn |-> NoArg,
                         before |-> validErrorMaps, prev |-> <<>>]>>
      /\ UNCHANGED <<editRules, msgMode, autoPos, removeRowMaps, pendingRowMaps,
                     treeConfig, isRowGroupStatus, ruleCheck, cellCheck>>
      /\ IF editRules.defined
           THEN LET columns == ColumnsInUse(cols)
                    walked == Traverse([ruleErr |-> FALSE, cells |-> <<>>],
                                       validList, columns, isFull)
                    r == SettleSyncCells(
                           [q |-> [new EXCEPT !.pc = "wait", !.columns = columns,
                                              !.cells = walked.cells],
                            ruleErr |-> walked.ruleErr], 1)
                IN  /\ sess' = Started(s, r.q, over)
                    /\ validRuleErr' = r.ruleErr
                    /\ validErrorMaps' = cleared
           ELSE /\ sess' = Started(s, [new EXCEPT !.pc = "norules"], over)
                /\ validRuleErr' = FALSE
                /\ validErrorMaps' = EmptyObj

(***************************************************************************)
(* Public methods.                                                         *)
(***************************************************************************)
\* inputs of the model: the rows arguments and the field-or-column arguments
\* arrays of two rows, in grid order
RowLists == {<<RowOf(p[1]), RowOf(p[2])>> : p \in {p \in Rows \X Rows : p[1] < p[2]}}
RowsArgs ==
  {RowsTrue, RowsNone, RowsFunction} \cup {RowsOne(RowOf(i)) : i \in Rows}
    \cup {RowsArray(l) : l \in RowLists}
FieldArgs ==
  {NoArg, One(Field("a")), One(Field("b")), One(Column(ColC)),
   Many(<<Field("b"), Field("a")>>)}

\* the colList of validateField and fullValidateField
ColList(fieldOrColumn) ==
  LET fcList == ToList(fieldOrColumn)
  IN  [i \in 1 .. Len(fcList) |-> handleFieldOrColumn(fcList[i])]

\* a call that returns nextTick() without starting a session
ReturnsNextTick(s, over) ==
  /\ CanBegin(s, over)
  /\ sess' = Started(s, [Idle EXCEPT !.pc = "done",
                                     !.result = [state |-> "resolved", value |-> "undefined"],
                                     !.failedBefore = sess[s].failedBefore],
                     over)
  /\ lastClear' = <<>>
  /\ UNCHANGED <<editRules, msgMode, autoPos, removeRowMaps, pendingRowMaps,
                 treeConfig, isRowGroupStatus, ruleCheck, cellCheck, validErrorMaps,
                 validRuleErr>>

fullValidate(s, rows, cb, over) == beginValidate(s, rows, <<>>, cb, TRUE, over)

validate(s, rows, cb, over) == beginValidate(s, rows, <<>>, cb, FALSE, over)

fullValidateField(s, rows, fieldOrColumn, over) ==
  LET colList == ColList(fieldOrColumn)
  IN  IF Len(colList) > 0 THEN beginValidate(s, rows, colList, FALSE, TRUE, over)
      ELSE ReturnsNextTick(s, over)

validateField(s, rows, fieldOrColumn, over) ==
  LET colList == ColList(fieldOrColumn)
  IN  IF Len(colList) > 0 THEN beginValidate(s, rows, colList, FALSE, FALSE, over)
      ELSE ReturnsNextTick(s, over)

\* clearValidate(rows, fieldOrColumn) called by the user, between two
\* sessions; lastClear keeps the call and the map it found, and in prev the
\* call made just before it, if that was a call of clearValidate too
ClearValidate(rows, fieldOrColumn) ==
  /\ \A s \in Sessions : sess[s].pc = "idle"
  /\ validErrorMaps' = clearValidate(validErrorMaps, rows, fieldOrColumn)
  /\ lastClear' = <<[rows |-> rows, fieldOrColumn |-> fieldOrColumn,
                     before |-> validErrorMaps,
                     prev |-> IF lastClear = <<>> THEN <<>>
                              ELSE <<[lastClear[1] EXCEPT !.prev = <<>>]>>]>>
  /\ UNCHANGED <<editRules, msgMode, autoPos, removeRowMaps, pendingRowMaps,
                 treeConfig, isRowGroupStatus, ruleCheck, cellCheck, validRuleErr, sess>>

\* The user takes the rules away from the grid (props.editRules), between
\* two sessions.
RemoveEditRules ==
  /\ editRules.defined
  /\ \A s \in Sessions : sess[s].pc = "idle"
  /\ editRules' = NoEditRules
  /\ lastClear' = <<>>
  /\ UNCHANGED <<msgMode, autoPos, removeRowMaps, pendingRowMaps, treeConfig,
                 isRowGroupStatus, ruleCheck, cellCheck, validErrorMaps, validRuleErr, sess>>

(***************************************************************************)
(* Callbacks of a session.                                                 *)
(***************************************************************************)
Unchanged ==
  UNCHANGED <<editRules, msgMode, autoPos, removeRowMaps, pendingRowMaps, treeConfig,
              isRowGroupStatus, ruleCheck, cellCheck>>

\* how a pending custom validator settles: it resolves, or rejects with a
\* reason that has a message, or with one that has none
Outcomes == {"resolve", "rejectMessage", "rejectBare"}

\* The promise of rule j of cell i settles: the catch callback of lines
\* 514-517 runs when it rejects; when it was the last pending promise of the
\* cell, validCellRules settles (lines 531-536) and the callback of the
\* cell follows.
SettleValidator(s, i, j, outcome) ==
  LET q == sess[s]
      cell == q.cells[i]
      rule == ObjGet(editRules.rules, cell.field)[j]
      content == IF outcome = "rejectMessage" THEN "remote refused" ELSE rule.content
      errorRules == IF outcome = "resolve" THEN cell.errorRules
                    ELSE Append(cell.errorRules, CustomFailure(rule, content))
      q1 == [q EXCEPT !.cells[i].pend = @ \ {j}, !.cells[i].errorRules = errorRules]
      last == cell.pend = {j}
  IN  /\ q.pc # "idle"
      /\ i \in 1 .. Len(q.cells)
      /\ j \in cell.pend
      /\ sess' = [sess EXCEPT ![s] = IF last THEN CellSettled(q1, i) ELSE q1]
      /\ validRuleErr' = (validRuleErr \/ outcome # "resolve"
                            \/ (last /\ CellSetsRuleErr(q1, i)))
      /\ lastClear' = <<>>
      /\ UNCHANGED validErrorMaps
      /\ Unchanged

\* the then-callback of line 306, were it run before every cell has settled
Merge_BeforeAllSettled(s) ==
  LET q == sess[s]
  IN  /\ q.pc = "wait"
      /\ validErrorMaps' = handleErrMsgMode(q.validErrMaps)
      /\ sess' = [sess EXCEPT ![s].pc = "merged"]
      /\ lastClear' = <<>>
      /\ UNCHANGED validRuleErr
      /\ Unchanged

\* the then-callback of lines 306-309: every cell resolved
Merge(s) ==
  LET q == sess[s]
  IN  /\ q.pc = "wait"
      /\ AllCellsDone(q)
      /\ validErrorMaps' = handleErrMsgMode(q.validErrMaps)
      /\ sess' = [sess EXCEPT ![s].pc = "merged"]
      /\ lastClear' = <<>>
      /\ UNCHANGED validRuleErr
      /\ Unchanged

\* the then-callback of lines 310-313, were the failure of the last field
\* of the failure map the one the chain rejects with
AfterMerge_LastField(s) ==
  LET q == sess[s]
      ruleProps == ObjKeys(q.validRest)
  IN  /\ q.pc = "merged"
      /\ IF Len(ruleProps) > 0
           THEN sess' = [sess EXCEPT ![s].pc = "caught",
                           ![s].firstErrParams =
                             <<ObjGet(q.validRest, ruleProps[Len(ruleProps)])[1]>>]
           ELSE sess' = [sess EXCEPT ![s].pc = "done",
                           ![s].cbCalls = IF q.cb THEN Append(@, "none") ELSE @,
                           ![s].fx = IF q.cb THEN Append(@, "cb") ELSE @,
                           ![s].result = [state |-> "resolved", value |-> "undefined"]]
      /\ lastClear' = <<>>
      /\ UNCHANGED <<validErrorMaps, validRuleErr>>
      /\ Unchanged

\* the nextTick callback of lines 309-316
AfterMerge(s) ==
  LET q == sess[s]
      ruleProps == ObjKeys(q.validRest)
  IN  /\ q.pc = "merged"
      /\ IF Len(ruleProps) > 0
           THEN sess' = [sess EXCEPT ![s].pc = "caught",
                           ![s].firstErrParams = <<ObjGet(q.validRest, ruleProps[1])[1]>>]
           ELSE sess' = [sess EXCEPT ![s].pc = "done",
                           ![s].cbCalls = IF q.cb THEN Append(@, "none") ELSE @,
                           ![s].fx = IF q.cb THEN Append(@, "cb") ELSE @,
                           ![s].result = [state |-> "resolved", value |-> "undefined"]]
      /\ lastClear' = <<>>
      /\ UNCHANGED <<validErrorMaps, validRuleErr>>
      /\ Unchanged

\* the nextTick callback of lines 356-360, were the callback not called
NoRules_WithoutCallback(s) ==
  LET q == sess[s]
  IN  /\ q.pc = "norules"
      /\ sess' = [sess EXCEPT ![s].pc = "done",
                    ![s].result = [state |-> "resolved", value |-> "undefined"]]
      /\ lastClear' = <<>>
      /\ UNCHANGED <<validErrorMaps, validRuleErr>>
      /\ Unchanged

\* the nextTick callback of lines 356-360: the grid has no rules
NoRules(s) ==
  LET q == sess[s]
  IN  /\ q.pc = "norules"
      /\ sess' = [sess EXCEPT ![s].pc = "done",
                    ![s].cbCalls = IF q.cb THEN Append(@, "none") ELSE @,
                    ![s].fx = IF q.cb THEN Append(@, "cb") ELSE @,
                    ![s].result = [state |-> "resolved", value |-> "undefined"]]
      /\ lastClear' = <<>>
      /\ UNCHANGED <<validErrorMaps, validRuleErr>>
      /\ Unchanged

\* the catch of line 317, were finish() called whatever autoPos is
Catch_FinishesAtOnce(s) ==
  /\ sess[s].pc = "caught"
  /\ sess' = [sess EXCEPT ![s].pc = "finish"]
  /\ lastClear' = <<>>
  /\ UNCHANGED <<validErrorMaps, validRuleErr>>
  /\ Unchanged

\* the catch of line 317, were finish() not called when autoPos is false
Catch_WithoutFinish(s) ==
  /\ sess[s].pc = "caught"
  /\ IF autoPos = FALSE
       THEN sess' = [sess EXCEPT ![s].pc = "stalled"]
       ELSE sess' = [sess EXCEPT ![s].pc = "scroll", ![s].fx = Append(@, "scrollToRow")]
  /\ lastClear' = <<>>
  /\ UNCHANGED <<validErrorMaps, validRuleErr>>
  /\ Unchanged

\* the catch callback of lines 317-351, up to finish() or scrollToRow()
Catch(s) ==
  LET q == sess[s]
  IN  /\ q.pc = "caught"
      /\ IF autoPos = FALSE
           THEN sess' = [sess EXCEPT ![s].pc = "finish"]
           ELSE sess' = [sess EXCEPT ![s].pc = "scroll", ![s].fx = Append(@, "scrollToRow")]
      /\ lastClear' = <<>>
      /\ UNCHANGED <<validErrorMaps, validRuleErr>>
      /\ Unchanged

\* scrollToRow settled: posAndFinish, lines 334-338, and handleValidError,
\* lines 162-174, up to resolve() or handleEdit()
PosAndFinish(s) ==
  LET q == sess[s]
  IN  /\ q.pc = "scroll"
      /\ IF autoPos = FALSE
           THEN sess' = [sess EXCEPT ![s].pc = "finish",
                           ![s].fx = @ \o <<"scrollToView", "valid-error">>]
           ELSE sess' = [sess EXCEPT ![s].pc = "edit",
                           ![s].fx = @ \o <<"scrollToView", "handleEdit">>]
      /\ lastClear' = <<>>
      /\ UNCHANGED <<validErrorMaps, validRuleErr>>
      /\ Unchanged

\* the value showValidTooltip(params) leaves in reactData.validErrorMaps
showValidTooltip(errorMaps, params) ==
  LET entry == [key |-> ValidKey(params.row, params.column),
                value |-> ErrEntry(params.row, params.column, params.rule,
                                   params.rule.content)]
  IN  IF msgMode = "single" THEN <<entry>> ELSE ObjAssign(errorMaps, <<entry>>)

\* handleEdit settled: showValidTooltip(params), lines 169-171 and 585-619
ShowTooltip(s) ==
  LET q == sess[s]
  IN  /\ q.pc = "edit"
      /\ validErrorMaps' = showValidTooltip(validErrorMaps, q.firstErrParams[1])
      /\ sess' = [sess EXCEPT ![s].pc = "tooltip",
                    ![s].fx = @ \o <<"showValidTooltip", "valid-error">>]
      /\ lastClear' = <<>>
      /\ UNCHANGED validRuleErr
      /\ Unchanged

\* the promise of showValidTooltip settled: finish(), lines 319-320
TooltipShown(s) ==
  LET q == sess[s]
  IN  /\ q.pc = "tooltip"
      /\ sess' = [sess EXCEPT ![s].pc = "finish"]
      /\ lastClear' = <<>>
      /\ UNCHANGED <<validErrorMaps, validRuleErr>>
      /\ Unchanged

\* finish, were the callback not looked at
FinishResult_IgnoresCallback(cb, toReject) ==
  IF toReject = "obsolete" THEN [state |-> "rejected", value |-> "validRest"]
  ELSE [state |-> "resolved", value |-> "validRest"]

\* finish, were the promise rejected whatever validToReject is
FinishResult_AlwaysRejects(cb, toReject) ==
  IF cb THEN [state |-> "resolved", value |-> "undefined"]
  ELSE [state |-> "rejected", value |-> "validRest"]

\* what the nextTick callback of finish does with the promise, lines 321-331
FinishResult(cb, toReject) ==
  IF cb THEN [state |-> "resolved", value |-> "undefined"]
  ELSE IF toReject = "obsolete" THEN [state |-> "rejected", value |-> "validRest"]
  ELSE [state |-> "resolved", value |-> "validRest"]

\* the nextTick callback of finish, lines 320-332
Finish(s, validToReject) ==
  LET q == sess[s]
  IN  /\ q.pc = "finish"
      /\ sess' = [sess EXCEPT ![s].pc = "done",
                    ![s].cbCalls = IF q.cb THEN Append(@, "validRest") ELSE @,
                    ![s].fx = IF q.cb THEN Append(@, "cb") ELSE @,
                    ![s].validToReject = validToReject,
                    ![s].result = FinishResult(q.cb, validToReject)]
      /\ lastClear' = <<>>
      /\ UNCHANGED <<validErrorMaps, validRuleErr>>
      /\ Unchanged

\* The caller lets go of a session that has settled and holds no callback
\* any more: its place in sess is free for a later call.  failedBefore keeps
\* whether a session that was held there has found a failure.
Forget(s) ==
  /\ sess[s].pc = "done"
  /\ Quiescent(sess[s])
  /\ sess' = [sess EXCEPT ![s] =
               [Idle EXCEPT !.failedBefore = sess[s].failedBefore
                                               \/ sess[s].validRest # EmptyObj]]
  /\ lastClear' = <<>>
  /\ UNCHANGED <<validErrorMaps, validRuleErr>>
  /\ Unchanged

(***************************************************************************)
(* Specifications.                                                         *)
(***************************************************************************)
\* the grids the model is run on: with or without rules, either message
\* mode, autoPos on or off, and either no row removed or marked pending,
\* or the first row removed and the second marked pending; the rows are
\* neither a tree nor grouped
InitGrid ==
  /\ treeConfig = FALSE
  /\ isRowGroupStatus = FALSE
  /\ editRules \in {EditRules, NoEditRules}
  /\ msgMode \in {"single", "multi"}
  /\ autoPos \in BOOLEAN
  /\ \E marked \in BOOLEAN :
       /\ removeRowMaps = IF marked THEN {getRowid(RowOf(1))} ELSE {}
       /\ pendingRowMaps = IF marked THEN {getRowid(RowOf(2))} ELSE {}

\* no call of checkRuleStatus is followed
NoCheck == [rule |-> <<>>, val |-> Null, done |-> FALSE, status |-> FALSE]

\* no call of validCellRules for one cell is in flight.  by tells who made
\* the call; sync, evaluated, invoked and asyncOrder are history: errorRules
\* when rules.forEach returned, the rules that passed the test of line 479,
\* the rules whose validator was called, and the rules whose promise
\* rejected, in the order they did
IdleCheck ==
  [pc |-> "idle", by |-> "none", validType |-> "all", row |-> <<>>, column |-> <<>>,
   mode |-> "cell", errorRules |-> <<>>, pend |-> {}, sync |-> <<>>, evaluated |-> <<>>,
   invoked |-> <<>>, asyncOrder |-> <<>>, result |-> NoResult, rest |-> <<>>]

InitState ==
  /\ ruleCheck = NoCheck
  /\ cellCheck = IdleCheck
  /\ validErrorMaps = EmptyObj
  /\ validRuleErr = FALSE
  /\ sess = [s \in Sessions |-> Idle]
  /\ lastClear = <<>>

Init == InitGrid /\ InitState

Callbacks(outcomes) ==
  \E s \in Sessions :
    \/ \E i \in 1 .. NumRows * Len(getColumns), j \in 1 .. 2, o \in outcomes :
         SettleValidator(s, i, j, o)
    \/ Merge(s)
    \/ AfterMerge(s)
    \/ NoRules(s)
    \/ Catch(s)
    \/ PosAndFinish(s)
    \/ ShowTooltip(s)
    \/ TooltipShown(s)
    \/ \E validToReject \in {"obsolete", "default"} : Finish(s, validToReject)

Calls(over, rowsArgs, fieldArgs) ==
  \E s \in Sessions, rows \in rowsArgs :
    \/ \E cb \in BOOLEAN : validate(s, rows, cb, over)
    \/ \E cb \in BOOLEAN : fullValidate(s, rows, cb, over)
    \/ \E fc \in fieldArgs : validateField(s, rows, fc, over)
    \/ \E fc \in fieldArgs : fullValidateField(s, rows, fc, over)

\* sessions one after the other, no other call in between
Next ==
  \/ Calls(FALSE, RowsArgs, FieldArgs)
  \/ Callbacks({"resolve", "rejectMessage"})
  \/ \E s \in Sessions : Forget(s)

Spec == Init /\ [][Next]_vars

(***************************************************************************)
(* Notions the properties share.                                           *)
(***************************************************************************)
\* the sessions in sess
Live == {s \in Sessions : sess[s].pc # "idle"}
\* the promise of session s is settled (and its callback, if any, called)
Delivered(s) == sess[s].pc = "done"
\* a cell check of the session has failed: validCellRules rejected
CellFailed(cell) == cell.done /\ cell.errorRules # <<>>
SessionFailed(s) == \E i \in 1 .. Len(sess[s].cells) : CellFailed(sess[s].cells[i])
\* the failure records of the failure map, field by field
RestRecords(q) ==
  {ObjGet(q.validRest, f)[n] : <<f, n>> \in
     {p \in KeySet(q.validRest) \X (1 .. NumRows * Len(getColumns)) :
        p[2] <= Len(ObjGet(q.validRest, p[1]))}}
\* the number of failure records of the failure map
RECURSIVE CountRest(_)
CountRest(validRest) ==
  IF validRest = <<>> THEN 0 ELSE Len(validRest[1].value) + CountRest(Tail(validRest))

(***************************************************************************)
(* C1: for validate/fullValidate called with a completion callback the     *)
(* returned promise never rejects; when the session has failed the         *)
(* callback is called once with the failure map and the promise resolves,  *)
(* when it has succeeded the callback is called once without a failure     *)
(* map; the callback is not called before.                                 *)
(***************************************************************************)
C1_CallbackNeverRejects ==
  \A s \in Live :
    sess[s].cb =>
      /\ sess[s].result.state # "rejected"
      /\ ~Delivered(s) => sess[s].cbCalls = <<>> /\ sess[s].result = NoResult
      /\ Delivered(s) =>
           /\ sess[s].result = [state |-> "resolved", value |-> "undefined"]
           /\ sess[s].cbCalls = IF SessionFailed(s) THEN <<"validRest">> ELSE <<"none">>

\* a failed session with a callback has called it with the failure map
C1_Witness ==
  \E s \in Live :
    /\ sess[s].cb /\ Delivered(s) /\ SessionFailed(s)
    /\ sess[s].cbCalls = <<"validRest">>
    /\ sess[s].result.state = "resolved"

(***************************************************************************)
(* C2: when a session finds a failure and no callback was supplied, the    *)
(* returned promise rejects with the failure map.  (As claimed.)           *)
(***************************************************************************)
C2_RejectsWithMap ==
  \A s \in Live :
    (Delivered(s) /\ ~sess[s].cb /\ SessionFailed(s)) =>
      sess[s].result = [state |-> "rejected", value |-> "validRest"]

(***************************************************************************)
(* C2, amended: when a session finds a failure and no callback was         *)
(* supplied, the returned promise settles with the failure map: it rejects *)
(* with it when the global option validToReject is 'obsolete' and resolves *)
(* with it otherwise; without a failure it resolves with nothing.          *)
(***************************************************************************)
C2_SettlesWithMap ==
  \A s \in Live :
    (Delivered(s) /\ ~sess[s].cb) =>
      /\ sess[s].cbCalls = <<>>
      /\ SessionFailed(s) =>
           /\ sess[s].result.value = "validRest"
           /\ sess[s].result.state =
                IF sess[s].validToReject = "obsolete" THEN "rejected" ELSE "resolved"
      /\ ~SessionFailed(s) => sess[s].result = [state |-> "resolved", value |-> "undefined"]

\* a failed session without callback, validToReject not 'obsolete', has
\* resolved with the failure map
C2_Witness ==
  \E s \in Live :
    /\ Delivered(s) /\ ~sess[s].cb /\ SessionFailed(s)
    /\ sess[s].validToReject = "default"
    /\ sess[s].result = [state |-> "resolved", value |-> "validRest"]

\* a row of the working set whose cells are to be checked: neither removed,
\* nor marked as pending, nor an aggregate row
EligibleRow(row) ==
  /\ getRowid(row) \notin removeRowMaps
  /\ getRowid(row) \notin pendingRowMaps
  /\ ~row.isAggregate
\* the eligible cells of a session, as places in its working set and columns
EligibleCells(q) ==
  {p \in (1 .. Len(q.validList)) \X (1 .. Len(q.columns)) :
     /\ editRules.defined
     /\ EligibleRow(q.validList[p[1]])
     /\ ObjHas(editRules.rules, q.columns[p[2]].field)}
\* the place of an eligible cell in the walk: rows outermost
WalkRank(q, p) ==
  Cardinality({o \in EligibleCells(q) : o[1] < p[1] \/ (o[1] = p[1] /\ o[2] <= p[2])})
\* cell n of the session is the check of the eligible cell p
ChecksCell(q, n, p) ==
  /\ n <= Len(q.cells)
  /\ q.cells[n].row = q.validList[p[1]]
  /\ q.cells[n].column = q.columns[p[2]]
\* the failure record of a cell that failed
RestOf(cell) ==
  [rule |-> cell.errorRules[1], rules |-> cell.errorRules, row |-> cell.row,
   column |-> cell.column, field |-> cell.field]
FailedCells(q) == {i \in 1 .. Len(q.cells) : CellFailed(q.cells[i])}

(***************************************************************************)
(* C3: in exhaustive mode every eligible cell of the working set is        *)
(* checked exactly once, whatever failed before, and the failure map that  *)
(* is delivered holds one failure record for each cell whose check failed  *)
(* and no other record.                                                    *)
(***************************************************************************)
C3_ExhaustiveChecksAll ==
  \A s \in Live :
    LET q == sess[s]
    IN  q.isFull =>
          /\ Len(q.cells) = Cardinality(EligibleCells(q))
          /\ \A p \in EligibleCells(q) : ChecksCell(q, WalkRank(q, p), p)
          /\ Delivered(s) =>
               /\ AllCellsDone(q)
               /\ RestRecords(q) = {RestOf(q.cells[i]) : i \in FailedCells(q)}
               /\ CountRest(q.validRest) = Cardinality(FailedCells(q))

\* an exhaustive session has delivered failures of two rows, the second of
\* them checked after the first had failed at once
C3_Witness ==
  \E s \in Live :
    LET q == sess[s]
    IN  /\ q.isFull /\ Delivered(s)
        /\ \E i, k \in FailedCells(q) :
             /\ i < k
             /\ q.cells[i].row # q.cells[k].row
             /\ q.cells[i].pend = {} /\ validCellRules("all", q.cells[i].row,
                                                      q.cells[i].column, Undef).ruleErr
        /\ CountRest(q.validRest) >= 2

\* a cell check that fails at once: a built-in rule, or a custom validator
\* that returns an Error
FailsAtOnce(cell) == validCellRules("all", cell.row, cell.column, Undef).ruleErr

(***************************************************************************)
(* C4: in fail-fast mode, with two or more failing rows the failure map    *)
(* holds only the first failing row's cell, whether the failing rules are  *)
(* built-in or custom, synchronous or asynchronous.  (As claimed.)         *)
(***************************************************************************)
C4_OnlyFirstFailingRow ==
  \A s \in Live :
    ~sess[s].isFull => \A r1, r2 \in RestRecords(sess[s]) : r1.row = r2.row

(***************************************************************************)
(* C4, amended: in fail-fast mode, once a cell has failed at once (a       *)
(* built-in rule, or a custom validator returning an Error) no later cell  *)
(* is checked, of the same row or of a later one: the cells checked are    *)
(* the eligible cells in walk order up to the first that fails at once,    *)
(* and at most one record of the failure map is of a cell that failed at   *)
(* once.  Cells that fail asynchronously stop nothing.                     *)
(***************************************************************************)
C4_StopsAtFirstSyncFailure ==
  \A s \in Live :
    LET q == sess[s]
    IN  ~q.isFull =>
          /\ \A i \in 1 .. Len(q.cells) : FailsAtOnce(q.cells[i]) => i = Len(q.cells)
          /\ Len(q.cells) <= Cardinality(EligibleCells(q))
          /\ \A p \in EligibleCells(q) :
               WalkRank(q, p) <= Len(q.cells) => ChecksCell(q, WalkRank(q, p), p)
          /\ Len(q.cells) < Cardinality(EligibleCells(q)) =>
               /\ Len(q.cells) > 0
               /\ FailsAtOnce(q.cells[Len(q.cells)])
          /\ Cardinality({r \in RestRecords(q) :
                            FailsAtOnce([row |-> r.row, column |-> r.column])}) <= 1

\* a fail-fast session over two rows has stopped at a cell of the first
\* that failed at once, and left eligible cells unchecked
C4_Witness ==
  \E s \in Live :
    LET q == sess[s]
    IN  /\ ~q.isFull /\ Delivered(s)
        /\ Len(q.validList) >= 2
        /\ Len(q.cells) > 0 /\ FailsAtOnce(q.cells[Len(q.cells)])
        /\ \E p \in EligibleCells(q) : p[1] > 1 /\ WalkRank(q, p) > Len(q.cells)
        /\ CountRest(q.validRest) = 1

\* a validator of the session has not settled yet
SomePending(q) == \E i \in 1 .. Len(q.cells) : q.cells[i].pend # {}

(***************************************************************************)
(* C5: a session never delivers its result while an asynchronous custom    *)
(* validator dispatched for one of its cells is pending, in fail-fast as   *)
(* in exhaustive mode and for any number of rows.  (As claimed.)           *)
(***************************************************************************)
C5_NeverDeliversWhilePending ==
  \A s \in Live : Delivered(s) => ~SomePending(sess[s])

(***************************************************************************)
(* C5, amended: a session delivers its result while one of its validators  *)
(* is pending only in fail-fast mode, when two or more cells were checked  *)
(* and one of them has failed: the result is then the failure, delivered   *)
(* once the first failure has been observed.  An exhaustive session, a     *)
(* session that succeeds and a session of a single cell deliver after all  *)
(* their validators have settled; a failure is never delivered before the  *)
(* rejection that makes it has been observed.                              *)
(***************************************************************************)
C5_DeliversAfterFirstFailure ==
  \A s \in Live :
    LET q == sess[s]
    IN  Delivered(s) =>
          /\ SomePending(q) =>
               /\ ~q.isFull
               /\ Len(q.cells) >= 2
               /\ SessionFailed(s)
               /\ q.result.value = IF q.cb THEN "undefined" ELSE "validRest"
               /\ q.cbCalls = IF q.cb THEN <<"validRest">> ELSE <<>>
          /\ q.firstErrParams # <<>> =>
               \E i \in FailedCells(q) :
                 /\ RestOf(q.cells[i]).row = q.firstErrParams[1].row
                 /\ RestOf(q.cells[i]).column = q.firstErrParams[1].column
                 /\ q.firstErrParams[1] \in RestRecords(q)
          /\ (q.isFull \/ q.firstErrParams = <<>> \/ Len(q.cells) <= 1) => AllCellsDone(q)

\* validateField on the field of an asynchronous validator, one row: the
\* failure is delivered, after the validator has rejected
C5_Witness ==
  \E s \in Live :
    LET q == sess[s]
    IN  /\ Delivered(s) /\ ~q.isFull /\ ~q.cb
        /\ Len(q.cells) = 1
        /\ q.cells[1].field = "b"
        /\ q.cells[1].done /\ ~FailsAtOnce(q.cells[1]) /\ CellFailed(q.cells[1])
        /\ q.result.value = "validRest"


(***************************************************************************)
(* Sessions one after the other, every callback that is due eventually run *)
(* and every pending validator eventually settled.                         *)
(***************************************************************************)
FairSpec ==
  /\ Spec
  /\ WF_vars(Callbacks({"resolve", "rejectMessage"}))
  /\ WF_vars(\E s \in Sessions : Forget(s))

\* fail-fast session s has detected its first failure while checks it had
\* dispatched are pending
FirstFailureWithPending(s) ==
  /\ sess[s].pc # "idle" /\ ~sess[s].isFull
  /\ sess[s].firstErrParams # <<>>
  /\ SomePending(sess[s])
\* the checks of fail-fast session s that have run to completion and failed
\* are in its failure map
FailuresRecorded(s) ==
  \A i \in FailedCells(sess[s]) : RestOf(sess[s].cells[i]) \in RestRecords(sess[s])
\* every check of fail-fast session s has run to completion
AllCompleted(s) ==
  /\ sess[s].pc # "idle" /\ ~sess[s].isFull
  /\ \A i \in 1 .. Len(sess[s].cells) : sess[s].cells[i].done /\ sess[s].cells[i].pend = {}

(***************************************************************************)
(* C6: in fail-fast mode every asynchronous check that was dispatched when *)
(* the first failure is detected runs to completion, and each such check   *)
(* that fails is added to the failure map of its session.                  *)
(***************************************************************************)
C6_LateFailuresRecorded ==
  /\ \A s \in Sessions :
       FirstFailureWithPending(s) ~> (AllCompleted(s) /\ FailuresRecorded(s))
  /\ [](\A s \in Live : ~sess[s].isFull => FailuresRecorded(s))

\* a fail-fast session has delivered its result and has then recorded the
\* failure of a check that was pending at the first failure
C6_Witness ==
  \E s \in Live :
    LET q == sess[s]
    IN  /\ ~q.isFull /\ Delivered(s) /\ AllCellsDone(q)
        /\ \E i \in FailedCells(q) :
             /\ RestOf(q.cells[i]) # q.firstErrParams[1]
             /\ ~FailsAtOnce(q.cells[i])
             /\ RestOf(q.cells[i]) \in RestRecords(q)

\* the keys "<rowId>:<columnId>" of the failing pairs a session collected
CollectedKeys(q) == {ValidKey(q.cells[i].row, q.cells[i].column) : i \in FailedCells(q)}

(***************************************************************************)
(* C7: in multi-message mode, when a session with failures has finished,   *)
(* the error map holds an entry keyed "<rowId>:<columnId>" for every       *)
(* failing pair the session collected, in fail-fast as in exhaustive mode  *)
(* and whether or not autoPos is enabled.                                  *)
(***************************************************************************)
C7_ErrorMapHoldsCollected ==
  \A s \in Live :
    (msgMode = "multi" /\ Delivered(s) /\ SessionFailed(s)) =>
      CollectedKeys(sess[s]) \subseteq KeySet(validErrorMaps)

(***************************************************************************)
(* Sessions that overlap: a call may be made while the validators of an    *)
(* earlier session are pending.                                            *)
(***************************************************************************)
\* the arguments of the calls: one row, the first or the last of the grid,
\* and the field of the asynchronous validator
OverlapRowsArgs == {RowsOne(RowOf(1)), RowsOne(RowOf(NumRows))}
OverlapFieldArgs == {One(Field("b"))}

NextOverlap ==
  \/ Calls(TRUE, OverlapRowsArgs, OverlapFieldArgs)
  \/ Callbacks(Outcomes)

\* a grid with no row removed or marked as pending
InitOverlap ==
  /\ treeConfig = FALSE
  /\ isRowGroupStatus = FALSE
  /\ editRules \in {EditRules, NoEditRules}
  /\ msgMode \in {"single", "multi"}
  /\ autoPos \in BOOLEAN
  /\ removeRowMaps = {}
  /\ pendingRowMaps = {}
  /\ InitState

SpecOverlap == InitOverlap /\ [][NextOverlap]_vars

\* the keys of the entries session a collected and no other session did
OnlyFoundBy(a) ==
  KeySet(sess[a].validErrMaps)
    \ UNION {KeySet(sess[t].validErrMaps) : t \in Live \ {a}}

(***************************************************************************)
(* C8: when session B is started while the asynchronous checks of session  *)
(* A are pending, the results of A are not written into the error map      *)
(* after B has started: once both have finished the error map holds no     *)
(* entry that only A found.                                                *)
(***************************************************************************)
C8_OlderSessionNeverWrites ==
  \A a, b \in Live :
    (a \in sess[b].since /\ Delivered(a) /\ Delivered(b)
       /\ AllCellsDone(sess[a]) /\ AllCellsDone(sess[b])) =>
      KeySet(validErrorMaps) \cap OnlyFoundBy(a) = {}

(***************************************************************************)
(* Sessions one after the other, and calls of clearValidate between them.  *)
(***************************************************************************)
ClearRowsArgs == {NoArg, One(RowOf(1)), Many(<<RowOf(1), RowOf(2)>>)}
ClearFieldArgs == {NoArg, One(Field("b")), One(Column(ColA)), Many(<<Field("a"), Field("b")>>)}

\* the sessions that fill the error map: the whole grid or the changed rows,
\* every column or the column of the asynchronous validator
ClearCallRowsArgs == {RowsTrue, RowsNone}
ClearCallFieldArgs == {One(Field("b"))}

NextClear ==
  \/ Calls(FALSE, ClearCallRowsArgs, ClearCallFieldArgs)
  \/ Callbacks({"resolve", "rejectMessage"})
  \/ \E s \in Sessions : Forget(s)
  \/ \E rows \in ClearRowsArgs, fc \in ClearFieldArgs : ClearValidate(rows, fc)

SpecClear == Init /\ [][NextClear]_vars

\* the row ids and the column ids given to the call kept in lastClear
GivenRowIds(c) == {getRowid(ToList(c.rows)[i]) : i \in 1 .. Len(ToList(c.rows))}
GivenColIds(c) ==
  {handleFieldOrColumn(ToList(c.fieldOrColumn)[i]).id : i \in 1 .. Len(ToList(c.fieldOrColumn))}
\* the entry is of a given row, of a given column
OfGivenRow(c, e) == getRowid(e.value.row) \in GivenRowIds(c)
OfGivenCol(c, e) == e.value.column.id \in GivenColIds(c)
\* a call of clearValidate was just made in multi-message mode
Cleared == lastClear # <<>> /\ msgMode = "multi"

(***************************************************************************)
(* C9: in multi-message mode clearValidate given only rows removes exactly *)
(* the entries whose row id is one of the given rows and preserves every   *)
(* entry of the other rows; given only columns it removes exactly the      *)
(* entries whose column id is one of the given columns and preserves all   *)
(* others.                                                                 *)
(***************************************************************************)
C9_ClearsMatchingEntries ==
  Cleared =>
    LET c == lastClear[1]
    IN  /\ (GivenRowIds(c) # {} /\ GivenColIds(c) = {}) =>
             validErrorMaps = SelectSeq(c.before, LAMBDA e : ~OfGivenRow(c, e))
        /\ (GivenRowIds(c) = {} /\ GivenColIds(c) # {}) =>
             validErrorMaps = SelectSeq(c.before, LAMBDA e : ~OfGivenCol(c, e))

(***************************************************************************)
(* C10: in multi-message mode clearValidate given both rows and columns    *)
(* removes exactly the entries keyed by a given row id and a given column  *)
(* id, and leaves every other entry of the error map unchanged.            *)
(***************************************************************************)
C10_ClearsIntersection ==
  Cleared =>
    LET c == lastClear[1]
    IN  (GivenRowIds(c) # {} /\ GivenColIds(c) # {}) =>
          validErrorMaps = SelectSeq(c.before, LAMBDA e : ~(OfGivenRow(c, e) /\ OfGivenCol(c, e)))

\* clearValidate given a row and a column has removed the entry of their
\* intersection and has kept an entry of the same row and another of the
\* same column
C10_Witness ==
  /\ Cleared
  /\ LET c == lastClear[1]
     IN  /\ GivenRowIds(c) # {} /\ GivenColIds(c) # {}
         /\ \E i \in 1 .. Len(c.before) : OfGivenRow(c, c.before[i]) /\ OfGivenCol(c, c.before[i])
         /\ \E i \in 1 .. Len(validErrorMaps) :
              OfGivenRow(c, validErrorMaps[i]) /\ ~OfGivenCol(c, validErrorMaps[i])
         /\ \E i \in 1 .. Len(validErrorMaps) :
              ~OfGivenRow(c, validErrorMaps[i]) /\ OfGivenCol(c, validErrorMaps[i])

\* the call kept in c was made without arguments
WithoutArguments(c) == ToList(c.rows) = <<>> /\ ToList(c.fieldOrColumn) = <<>>

(***************************************************************************)
(* C11: clearValidate() without arguments empties the error map from any   *)
(* state, in single- and in multi-message mode, and is idempotent: called  *)
(* twice in a row it leaves an empty error map both times.                 *)
(***************************************************************************)
C11_ClearAllEmptiesMap ==
  /\ clearValidate(validErrorMaps, NoArg, NoArg) = EmptyObj
  /\ (lastClear # <<>> /\ WithoutArguments(lastClear[1])) =>
       /\ validErrorMaps = EmptyObj
       /\ (lastClear[1].prev # <<>> /\ WithoutArguments(lastClear[1].prev[1])) =>
            lastClear[1].before = EmptyObj

\* clearValidate() was called twice in a row on an error map that held
\* entries: the map was empty after the first call and is empty after the
\* second
C11_Witness ==
  /\ lastClear # <<>> /\ WithoutArguments(lastClear[1])
  /\ lastClear[1].prev # <<>> /\ WithoutArguments(lastClear[1].prev[1])
  /\ lastClear[1].prev[1].before # EmptyObj
  /\ lastClear[1].before = EmptyObj
  /\ validErrorMaps = EmptyObj

(***************************************************************************)
(* C12: in single-message mode, after two failing validations made one     *)
(* after the other, the error map holds exactly one entry, and that entry  *)
(* is of a failure of the later validation.                                *)
(***************************************************************************)
C12_SingleModeOneEntry ==
  \A s \in Live :
    (msgMode = "single" /\ sess[s].failedBefore /\ Delivered(s) /\ SessionFailed(s)) =>
      /\ Len(validErrorMaps) = 1
      /\ validErrorMaps[1].key \in CollectedKeys(sess[s])

(***************************************************************************)
(* Sessions one after the other on a grid whose rules may be taken away    *)
(* between two of them; every call reaches beginValidate.                  *)
(***************************************************************************)
RulesFieldArgs == FieldArgs \ {NoArg}

NextRules ==
  \/ Calls(FALSE, RowsArgs, RulesFieldArgs)
  \/ Callbacks({"resolve", "rejectMessage"})
  \/ \E s \in Sessions : Forget(s)
  \/ RemoveEditRules

SpecRules == Init /\ [][NextRules]_vars

(***************************************************************************)
(* C13: when the grid has no rule set, a validation call leaves the error  *)
(* map empty, makes no cell check and calls no custom validator for any    *)
(* row, causes no other effect, and resolves: the callback, if given, is   *)
(* called once without a failure map.                                      *)
(***************************************************************************)
C13_NoRulesResolves ==
  \A s \in Live :
    LET q == sess[s]
    IN  ~editRules.defined =>
          /\ validErrorMaps = EmptyObj
          /\ q.cells = <<>> /\ q.validRest = EmptyObj /\ q.validErrMaps = EmptyObj
          /\ q.pc \in {"norules", "done"}
          /\ q.pc = "norules" => q.result = NoResult /\ q.cbCalls = <<>> /\ q.fx = <<>>
          /\ Delivered(s) =>
               /\ q.result = [state |-> "resolved", value |-> "undefined"]
               /\ q.cbCalls = IF q.cb THEN <<"none">> ELSE <<>>
               /\ q.fx = IF q.cb THEN <<"cb">> ELSE <<>>

\* a call was just made on a grid without rules while the error map held
\* entries of an earlier session: the map is empty and nothing was checked
C13_Witness ==
  \E s \in Live :
    /\ ~editRules.defined
    /\ sess[s].pc = "norules" /\ sess[s].cells = <<>>
    /\ Len(sess[s].validList) > 0
    /\ lastClear # <<>> /\ lastClear[1].before # EmptyObj
    /\ validErrorMaps = EmptyObj

(***************************************************************************)
(* Trees and row groups: the grid is flat, a tree or grouped, and the      *)
(* calls name the row of the tree, the row of the group, or both.          *)
(***************************************************************************)
InitTree ==
  /\ treeConfig \in BOOLEAN
  /\ isRowGroupStatus \in BOOLEAN
  /\ editRules \in {EditRules, NoEditRules}
  /\ msgMode \in {"single", "multi"}
  /\ autoPos \in BOOLEAN
  /\ \E marked \in BOOLEAN :
       /\ removeRowMaps = IF marked THEN {getRowid(RowOf(1))} ELSE {}
       /\ pendingRowMaps = IF marked THEN {getRowid(RowOf(2))} ELSE {}
  /\ InitState

TreeRowsArgs ==
  {RowsOne(TreeRow), RowsOne(GroupRow), RowsArray(<<GroupRow, TreeRow>>), RowsArray(<<>>),
   RowsTrue, RowsNone, RowsNull, RowsFunction}
TreeFieldArgs == {One(Field("a")), Many(<<Field("b"), Field("a")>>)}

NextTree ==
  \/ Calls(FALSE, TreeRowsArgs, TreeFieldArgs)
  \/ Callbacks({"resolve", "rejectMessage"})
  \/ \E s \in Sessions : Forget(s)

SpecTree == InitTree /\ [][NextTree]_vars

\* the rows an entry of an error map, a failure record and a cell check are of
EntryRows(validErrMaps) == {validErrMaps[i].value.row : i \in 1 .. Len(validErrMaps)}
RecordRows(q) == {r.row : r \in RestRecords(q)}
CheckedRows(q) == {q.cells[i].row : i \in 1 .. Len(q.cells)}

(***************************************************************************)
(* C14: no cell check is started for a row that is removed, marked as      *)
(* pending deletion or an aggregate row, and no such row has a record in   *)
(* the failure map or an entry in the error map, whether the rows are      *)
(* walked as a flat list, as a tree or as row groups.                      *)
(***************************************************************************)
C14_SkipsIneligibleRows ==
  /\ \A row \in EntryRows(validErrorMaps) : EligibleRow(row)
  /\ \A s \in Live :
       \A row \in CheckedRows(sess[s]) \cup RecordRows(sess[s])
                    \cup EntryRows(sess[s].validErrMaps) : EligibleRow(row)

\* a session over the row of the group and the row of the tree, on grouped
\* rows of which one is removed: the aggregate row and its removed child
\* are skipped, its other child is checked, and a failure is in the error map
C14_Witness ==
  \E s \in Live :
    /\ isRowGroupStatus /\ removeRowMaps # {}
    /\ sess[s].validList = <<GroupRow, TreeRow>>
    /\ Delivered(s)
    /\ RowOf(NumRows) \in CheckedRows(sess[s])
    /\ RowOf(1) \notin CheckedRows(sess[s])
    /\ validErrorMaps # EmptyObj

\* a is the beginning of b
IsPrefix(a, b) == Len(a) <= Len(b) /\ SubSeq(b, 1, Len(a)) = a
\* what a failing session does when autoPos is not false, in its order
PositionedEffects(q) ==
  <<"scrollToRow", "scrollToView", "handleEdit", "showValidTooltip", "valid-error">>
    \o (IF q.cb THEN <<"cb">> ELSE <<>>)
\* the chain of the session was rejected: it has a first failure
Rejected(q) == q.firstErrParams # <<>>

(***************************************************************************)
(* C15: when autoPos is not false, a session that fails scrolls to the     *)
(* row and column of the first failure, then edits that cell, then shows   *)
(* the tooltip, which records the failure in the error map and dispatches  *)
(* 'valid-error', and only then calls the callback and settles the         *)
(* promise; nothing is delivered before showValidTooltip was called.       *)
(***************************************************************************)
C15_PositionsBeforeSettling ==
  \A s \in Live :
    LET q == sess[s]
    IN  (autoPos /\ Rejected(q)) =>
          /\ IsPrefix(q.fx, PositionedEffects(q))
          /\ (q.result # NoResult \/ q.cbCalls # <<>>) =>
               Delivered(s) /\ q.fx = PositionedEffects(q)
          /\ Delivered(s) => q.result # NoResult /\ q.fx = PositionedEffects(q)
          /\ Len(q.fx) >= 4 =>
               ObjHas(validErrorMaps,
                      ValidKey(q.firstErrParams[1].row, q.firstErrParams[1].column))

\* a failing session with a callback was delivered after all the steps
C15_Witness ==
  \E s \in Live :
    /\ autoPos /\ Rejected(sess[s]) /\ Delivered(s) /\ sess[s].cb
    /\ sess[s].cbCalls = <<"validRest">>
    /\ sess[s].fx = PositionedEffects(sess[s])

\* the effect is in the log of the session
Did(q, effect) == \E i \in 1 .. Len(q.fx) : q.fx[i] = effect

(***************************************************************************)
(* C16: when autoPos is false, a session that fails dispatches             *)
(* 'valid-error' for its first failure before it is delivered, and         *)
(* neither scrolls to the row nor edits the cell.                          *)
(***************************************************************************)
C16_DispatchesWithoutFocus ==
  \A s \in Live :
    LET q == sess[s]
    IN  (autoPos = FALSE /\ Rejected(q)) =>
          /\ ~Did(q, "scrollToRow") /\ ~Did(q, "scrollToView") /\ ~Did(q, "handleEdit")
          /\ Delivered(s) => Did(q, "valid-error")

\* the rows of a list with the rows below them, as line 298-305 walk them:
\* the children of a group, else of a tree, else none
RECURSIVE WithDescendants(_)
WithDescendants(list) ==
  IF list = <<>> THEN {}
  ELSE {list[1]}
         \cup (IF isRowGroupStatus THEN WithDescendants(list[1].mapChildren)
               ELSE IF treeConfig THEN WithDescendants(list[1].children)
               ELSE {})
         \cup WithDescendants(Tail(list))
\* the inserted and the updated records
ChangedRecords == getInsertRecords \o getUpdateRecords

GivenColumns(q) ==
  IF Len(q.cols) > 0 THEN {q.cols[i] : i \in 1 .. Len(q.cols)}
  ELSE {getColumns[i] : i \in 1 .. Len(getColumns)}
\* the column is one of the session's and its field has rules
HasRulesIn(q, column) ==
  /\ column \in GivenColumns(q)
  /\ editRules.defined /\ \E i \in 1 .. Len(editRules.rules) : editRules.rules[i].key = column.field

(***************************************************************************)
(* C18: a session checks a cell only if its column is one of the columns   *)
(* the call gave, or of the columns of the grid when it gave none, and the *)
(* field of the column is a key of the rules; no other column has a cell   *)
(* check, a failure record or an entry in the error map.                   *)
(***************************************************************************)
C18_ChecksColumnsWithRules ==
  \A s \in Live :
    LET q == sess[s]
    IN  /\ \A i \in 1 .. Len(q.cells) :
             HasRulesIn(q, q.cells[i].column) /\ q.cells[i].field = q.cells[i].column.field
        /\ \A r \in RestRecords(q) : HasRulesIn(q, r.column) /\ r.field = r.column.field
        /\ \A i \in 1 .. Len(q.validErrMaps) : HasRulesIn(q, q.validErrMaps[i].value.column)
        /\ \A i \in 1 .. Len(validErrorMaps) : HasRulesIn(q, validErrorMaps[i].value.column)

\* an exhaustive session over the whole data that was given the column of b
\* alone has checked b in every row and nothing else, though a has rules
\* that the first row breaks
C18_Witness ==
  \E s \in Live :
    LET q == sess[s]
    IN  /\ q.cols = <<ColB>> /\ q.isFull /\ q.rows.k = "true" /\ removeRowMaps = {}
        /\ Delivered(s)
        /\ Len(q.cells) = NumRows
        /\ \A i \in 1 .. Len(q.cells) : q.cells[i].column = ColB
        /\ validErrorMaps # EmptyObj

(***************************************************************************)
(* The built-in check of one rule on one value: the rule and the value are *)
(* drawn from the sets below and checkRuleStatus is applied to them, as    *)
(* validCellRules does for a rule without a validator.                     *)
(***************************************************************************)
CheckRules ==
  {MkRule(required, type, min, max, pattern, NoValidator, NoTrigger, "invalid") :
     required \in BOOLEAN, type \in {"none", "number", "string", "array"},
     min \in {NoBound, Bound(1), Bound(18)}, max \in {NoBound, Bound(2), Bound(18)},
     pattern \in {NoPattern, "digits"}}
CheckValues ==
  {Null, Undef, Str(<<>>), Str(<<"7">>), Str(<<"1", "5">>), Str(<<"2", "0">>),
   Str(<<"a", "b">>), Num(0), Num(15), Num(20), Arr(<<>>), Arr(<<<<"a">>>>),
   Arr(<<<<"2", "0">>>>), Arr(<<<<"a">>, <<"b">>>>)}

InitCheck ==
  /\ editRules = NoEditRules
  /\ msgMode = "single"
  /\ autoPos = TRUE
  /\ removeRowMaps = {}
  /\ pendingRowMaps = {}
  /\ treeConfig = FALSE
  /\ isRowGroupStatus = FALSE
  /\ validErrorMaps = EmptyObj
  /\ validRuleErr = FALSE
  /\ sess = [s \in Sessions |-> Idle]
  /\ lastClear = <<>>
  /\ cellCheck = IdleCheck
  /\ \E rule \in CheckRules, val \in CheckValues :
       ruleCheck = [rule |-> rule, val |-> val, done |-> FALSE, status |-> FALSE]

\* checkRuleStatus(rule, cellValue), called at line 522
CheckRuleStatus ==
  /\ ~ruleCheck.done
  /\ ruleCheck' = [ruleCheck EXCEPT !.done = TRUE,
                                    !.status = checkRuleStatus(ruleCheck.rule, ruleCheck.val)]
  /\ UNCHANGED <<editRules, msgMode, autoPos, removeRowMaps, pendingRowMaps, treeConfig,
                 isRowGroupStatus, cellCheck, validErrorMaps, validRuleErr, sess, lastClear>>

NextCheck == CheckRuleStatus

SpecCheck == InitCheck /\ [][NextCheck]_vars

\* the values that count as empty: an array without elements, null,
\* undefined and the empty string
EmptyValue(val) == val \in {Arr(<<>>), Null, Undef, Str(<<>>)}

(***************************************************************************)
(* C19: on an empty value (an array of length zero, null, undefined or the *)
(* empty string) checkRuleStatus passes if and only if the rule is not     *)
(* required, whatever its type, min, max and pattern are.                  *)
(***************************************************************************)
C19_EmptyPassesIffNotRequired ==
  (ruleCheck.done /\ EmptyValue(ruleCheck.val)) =>
    (ruleCheck.status <=> ~ruleCheck.rule.required)

\* the empty array has passed a rule of type array with min 1 that is not
\* required
C19_Witness ==
  /\ ruleCheck.done /\ ruleCheck.status
  /\ ruleCheck.val = Arr(<<>>)
  /\ ruleCheck.rule.type = "array" /\ ruleCheck.rule.min = Bound(1)
  /\ ~ruleCheck.rule.required /\ ruleCheck.rule.pattern = "digits"

\* Number(val) is a number: the value is numeric
Numeric(val) == ~ToNumber(val).nan
\* Number(val) is within min and max
WithinBounds(rule, val) ==
  /\ rule.min.set => ToNumber(val).v >= rule.min.v
  /\ rule.max.set => ToNumber(val).v <= rule.max.v
\* a call of checkRuleStatus with a rule of type number without a pattern
NumberRuleChecked ==
  ruleCheck.done /\ ruleCheck.rule.type = "number" /\ ruleCheck.rule.pattern = NoPattern

(***************************************************************************)
(* C20 as stated: under a rule of type number a value that is not numeric  *)
(* fails whether the rule is required or not, and a numeric value passes   *)
(* if and only if it is within min and max.                                *)
(***************************************************************************)
C20_NonNumericAlwaysFails ==
  NumberRuleChecked =>
    /\ ~Numeric(ruleCheck.val) => ~ruleCheck.status
    /\ (Numeric(ruleCheck.val) /\ ~EmptyValue(ruleCheck.val)) =>
         (ruleCheck.status <=> WithinBounds(ruleCheck.rule, ruleCheck.val))

(***************************************************************************)
(* C20: under a rule of type number a value that is not empty passes if    *)
(* and only if it is numeric and within min and max, whether the rule is   *)
(* required or not; an empty value fails when the rule is required and     *)
(* passes when it is not, numeric or not.                                  *)
(***************************************************************************)
C20_NumberRule ==
  NumberRuleChecked =>
    IF EmptyValue(ruleCheck.val) THEN ruleCheck.status <=> ~ruleCheck.rule.required
    ELSE ruleCheck.status <=>
           (Numeric(ruleCheck.val) /\ WithinBounds(ruleCheck.rule, ruleCheck.val))

\* undefined, which is not numeric, has passed a rule of type number with
\* min 18 that is not required
C20_Witness ==
  /\ NumberRuleChecked /\ ruleCheck.status
  /\ ruleCheck.val = Undef /\ ~Numeric(ruleCheck.val)
  /\ ~ruleCheck.rule.required /\ ruleCheck.rule.min = Bound(18)

(***************************************************************************)
(* validCellRules for one cell, called with a validation type by the       *)
(* editing of the grid, and triggerValidate.                               *)
(***************************************************************************)
\* what is left alone by a step of the call in flight
CheckUnchanged ==
  UNCHANGED <<editRules, msgMode, autoPos, removeRowMaps, pendingRowMaps, treeConfig,
              isRowGroupStatus, ruleCheck, sess>>

\* cellCheck once rules.forEach of lines 478-528 returned
Checking(by, validType, row, column, mode) ==
  LET r == validCellRules(validType, row, column, Undef)
  IN  [IdleCheck EXCEPT !.pc = "pending", !.by = by, !.validType = validType,
                        !.row = <<row>>, !.column = <<column>>, !.mode = mode,
                        !.errorRules = r.errorRules, !.pend = r.pend, !.sync = r.errorRules,
                        !.evaluated = r.evaluated, !.invoked = r.invoked]

\* validCellRules(validType, row, column), lines 464-530: the call returns
\* the promise of line 531
ValidCellRules(validType, row, column) ==
  /\ cellCheck.pc = "idle"
  /\ cellCheck' = Checking("call", validType, row, column, "cell")
  /\ validRuleErr' = (validRuleErr \/ validCellRules(validType, row, column, Undef).ruleErr)
  /\ lastClear' = <<>>
  /\ UNCHANGED validErrorMaps
  /\ CheckUnchanged

\* the promise of the validator of rule j settles, lines 513-518
SettleCellValidator(j, outcome) ==
  LET rule == ObjGet(editRules.rules, cellCheck.column[1].field)[j]
  IN  /\ cellCheck.pc = "pending"
      /\ j \in cellCheck.pend
      /\ cellCheck' =
           [cellCheck EXCEPT
              !.pend = @ \ {j},
              !.errorRules = IF outcome = "resolve" THEN @ ELSE AsyncFailed(@, rule, outcome),
              !.asyncOrder = IF outcome = "resolve" THEN @ ELSE Append(@, j)]
      /\ validRuleErr' = (validRuleErr \/ outcome # "resolve")
      /\ lastClear' = <<>>
      /\ UNCHANGED validErrorMaps
      /\ CheckUnchanged

\* Promise.all(syncValidList) is fulfilled: the callback of lines 531-536
ValidCellRulesSettled ==
  /\ cellCheck.pc = "pending" /\ cellCheck.by = "call"
  /\ cellCheck.pend = {}
  /\ cellCheck' =
       IF cellCheck.errorRules # <<>>
         THEN [cellCheck EXCEPT !.pc = "done",
                                !.result = [state |-> "rejected", value |-> "rest"],
                                !.rest = <<CellRejection(cellCheck.errorRules)>>]
         ELSE [cellCheck EXCEPT !.pc = "done",
                                !.result = [state |-> "resolved", value |-> "undefined"]]
  /\ lastClear' = <<>>
  /\ UNCHANGED <<validErrorMaps, validRuleErr>>
  /\ CheckUnchanged

\* The rules of field a that the calls for one cell are run on.
Triggers == {"change", "blur"}
CellRule(validator, trigger, content) ==
  MkRule(FALSE, "none", NoBound, NoBound, NoPattern, validator, trigger, content)
RulePool ==
  {MkRule(TRUE, "none", NoBound, NoBound, NoPattern, NoValidator, NoTrigger, "required"),
   MkRule(TRUE, "none", NoBound, NoBound, NoPattern, NoValidator, "change", "required on change"),
   CellRule(Inline("retError"), NoTrigger, "refused inline"),
   CellRule(Inline("retPromise"), NoTrigger, "remote inline"),
   CellRule(Inline("retPromise"), "blur", "remote on blur"),
   CellRule(Inline("retTrue"), NoTrigger, "true"),
   CellRule(Inline("retZero"), NoTrigger, "zero"),
   CellRule(Inline("retUndefined"), "change", "undefined on change"),
   CellRule(Named("missing"), NoTrigger, "not registered"),
   CellRule(Named("bare"), NoTrigger, "no method"),
   CellRule(Named("refuse"), "change", "refused on change"),
   CellRule(Named("remote"), NoTrigger, "remote registered")}
RuleLists ==
  {<<r>> : r \in RulePool} \cup {<<r[1], r[2]>> : r \in RulePool \X RulePool}
    \cup {<<r[1], r[2], r[3]>> : r \in RulePool \X RulePool \X RulePool}
RulesOfA(rules) == [defined |-> TRUE, rules |-> <<[key |-> "a", value |-> rules]>>]

InitCell ==
  /\ editRules \in {RulesOfA(rules) : rules \in RuleLists}
  /\ msgMode = "single"
  /\ autoPos = TRUE
  /\ removeRowMaps = {}
  /\ pendingRowMaps = {}
  /\ treeConfig = FALSE
  /\ isRowGroupStatus = FALSE
  /\ InitState

\* the rows of the calls: the value of a is empty in the first
CellRows == {RowOf(1), RowOf(2)}

NextCell ==
  \/ \E validType \in Triggers \cup {"all"}, row \in CellRows :
       ValidCellRules(validType, row, ColA)
  \/ \E j \in {1, 2, 3}, outcome \in Outcomes : SettleCellValidator(j, outcome)
  \/ ValidCellRulesSettled

SpecCell == InitCell /\ [][NextCell]_vars

\* the rules of the field of the cell in flight
CheckedRules == ObjGet(editRules.rules, cellCheck.column[1].field)
\* the places of a rule in the rules of the field, in a sequence of places
PlacesOf(rule) == {j \in 1 .. Len(CheckedRules) : CheckedRules[j] = rule}
InSeq(seq, x) == \E i \in 1 .. Len(seq) : seq[i] = x
\* the failures in errorRules that are of the rule
FailuresOf(errorRules, rule) == {k \in 1 .. Len(errorRules) : errorRules[k].rule = rule}
\* the validator of the rule returns an Error: the inline function that
\* refuses, and the registered one
ReturnsError(rule) ==
  rule.validator.given /\ rule.validator.name \in {"retError", "refuse"}
\* the call of validCellRules has settled
CheckSettled == cellCheck.pc = "done" /\ cellCheck.by = "call"

(***************************************************************************)
(* C21: a rule with a custom validator adds a failure to its cell if and   *)
(* only if the validator returns an Error or returns a promise that        *)
(* rejects; a validator that returns undefined, or a value that is neither *)
(* an Error nor a promise, and a named validator that is not registered,   *)
(* add none, and the cell passes when no rule has added one.               *)
(***************************************************************************)
C21_CustomValidatorFailures ==
  CheckSettled =>
    /\ \A j \in 1 .. Len(CheckedRules) :
         LET rule == CheckedRules[j]
         IN  (rule.validator.given /\ InSeq(cellCheck.evaluated, j)) =>
               Cardinality(FailuresOf(cellCheck.errorRules, rule))
                 = Cardinality({i \in PlacesOf(rule) :
                                  ReturnsError(rule) \/ InSeq(cellCheck.asyncOrder, i)})
    /\ (cellCheck.result.state = "resolved") <=> (cellCheck.errorRules = <<>>)

\* a cell with a named validator that is not registered, a validator that
\* returns true and a validator whose promise has rejected: one failure,
\* that of the promise
C21_Witness ==
  /\ CheckSettled
  /\ CheckedRules = <<CellRule(Named("missing"), NoTrigger, "not registered"),
                      CellRule(Inline("retTrue"), NoTrigger, "true"),
                      CellRule(Inline("retPromise"), NoTrigger, "remote inline")>>
  /\ cellCheck.invoked = <<2, 3>>
  /\ cellCheck.asyncOrder = <<3>>
  /\ Len(cellCheck.errorRules) = 1
  /\ cellCheck.result.state = "rejected"

\* the elements of a set of numbers, smallest first
RECURSIVE Ascending(_)
Ascending(S) ==
  IF S = {} THEN <<>>
  ELSE LET m == CHOOSE x \in S : \A y \in S : x <= y IN <<m>> \o Ascending(S \ {m})
\* the rules that fail before rules.forEach returns: a built-in rule the
\* value of the cell breaks, a validator that returns an Error
FailsAtCall(j) ==
  LET rule == CheckedRules[j]
  IN  /\ InSeq(cellCheck.evaluated, j)
      /\ IF rule.validator.given THEN ReturnsError(rule)
         ELSE ~checkRuleStatus(rule, CellValue(cellCheck.row[1], cellCheck.column[1].field))
\* the rules of a sequence of places, and of a sequence of failures
RulesAt(places) == [k \in 1 .. Len(places) |-> CheckedRules[places[k]]]
RulesIn(errorRules) == [k \in 1 .. Len(errorRules) |-> errorRules[k].rule]

(***************************************************************************)
(* C22: validCellRules settles only when every promise of the cell has     *)
(* settled; it succeeds if and only if no rule has failed, and else fails  *)
(* with { rule, rules } where rules holds the failures found at once, in   *)
(* the order of the rules, then the failures of the promises, in the order *)
(* they rejected, and rule is the first of rules.                          *)
(***************************************************************************)
C22_SettlesWithOrderedFailures ==
  /\ (cellCheck.by = "call" /\ cellCheck.pend # {}) =>
       cellCheck.pc = "pending" /\ cellCheck.result = NoResult
  /\ CheckSettled =>
       LET failing == Ascending({j \in 1 .. Len(CheckedRules) : FailsAtCall(j)})
       IN  IF failing = <<>> /\ cellCheck.asyncOrder = <<>>
             THEN cellCheck.result.state = "resolved" /\ cellCheck.rest = <<>>
             ELSE /\ cellCheck.result.state = "rejected"
                  /\ RulesIn(cellCheck.rest[1].rules)
                       = RulesAt(failing) \o RulesAt(cellCheck.asyncOrder)
                  /\ cellCheck.rest[1].rule = cellCheck.rest[1].rules[1]

\* two promises around a validator that returns an Error: the later promise
\* rejected first, and rules is the Error, the later promise, the earlier
C22_Witness ==
  /\ CheckSettled
  /\ CheckedRules = <<CellRule(Inline("retPromise"), NoTrigger, "remote inline"),
                      CellRule(Inline("retError"), NoTrigger, "refused inline"),
                      CellRule(Named("remote"), NoTrigger, "remote registered")>>
  /\ cellCheck.asyncOrder = <<3, 1>>
  /\ RulesIn(cellCheck.rest[1].rules) = RulesAt(<<2, 3, 1>>)
  /\ cellCheck.rest[1].rule.rule = CheckedRules[2]

\* the places of the rules validCellRules is to evaluate for the type of the
\* call: every rule when the type is 'all', else the rules without a
\* trigger and those whose trigger is the type
ScopedPlaces ==
  {j \in 1 .. Len(CheckedRules) :
     \/ cellCheck.validType = "all"
     \/ CheckedRules[j].trigger = NoTrigger
     \/ CheckedRules[j].trigger = cellCheck.validType}

(***************************************************************************)
(* C23: validCellRules(type, ...) evaluates exactly the rules of the field *)
(* for which type is 'all', or that have no trigger, or whose trigger is   *)
(* type; a rule of another trigger is not evaluated, its validator is not  *)
(* called, and it is not among the failures; hasCellRules tells whether    *)
(* there is a rule to evaluate.                                            *)
(***************************************************************************)
C23_EvaluatesScopedRules ==
  (cellCheck.pc # "idle" /\ cellCheck.by = "call") =>
    /\ cellCheck.evaluated = Ascending(ScopedPlaces)
    /\ \A j \in 1 .. Len(CheckedRules) :
         j \notin ScopedPlaces =>
           /\ ~InSeq(cellCheck.invoked, j)
           /\ j \notin cellCheck.pend
           /\ ~InSeq(cellCheck.asyncOrder, j)
    /\ \A k \in 1 .. Len(cellCheck.errorRules) :
         \E j \in ScopedPlaces : cellCheck.errorRules[k].rule = CheckedRules[j]
    /\ hasCellRules(cellCheck.validType, cellCheck.row[1], cellCheck.column[1])
         <=> ScopedPlaces # {}

\* a call of type change on a rule of blur, a rule of change and a rule
\* without trigger: the last two are evaluated and have failed, the
\* validator of the first was not called
C23_Witness ==
  /\ CheckSettled /\ cellCheck.validType = "change"
  /\ CheckedRules = <<CellRule(Inline("retPromise"), "blur", "remote on blur"),
                      CellRule(Named("refuse"), "change", "refused on change"),
                      MkRule(TRUE, "none", NoBound, NoBound, NoPattern, NoValidator,
                             NoTrigger, "required")>>
  /\ cellCheck.evaluated = <<2, 3>>
  /\ cellCheck.invoked = <<2>>
  /\ Len(cellCheck.errorRules) = 2

(***************************************************************************)
(* triggerValidate, and calls made while sessions are pending.             *)
(***************************************************************************)
\* editStore.actived: no cell is edited, or the cell of a row and a column
NoActive == <<>>
Active(row, column) == <<[row |-> row, column |-> column]>>

\* triggerValidate(type), lines 550-581, up to the call of validCellRules;
\* mode is editOpts.mode
TriggerValidate(type, actived, mode) ==
  /\ cellCheck.pc # "pending"
  /\ validErrorMaps' = IF editRules.defined /\ msgMode = "single" THEN EmptyObj
                       ELSE validErrorMaps
  /\ IF editRules.defined /\ actived # NoActive
          /\ hasCellRules(type, actived[1].row, actived[1].column)
       THEN /\ cellCheck' = Checking("trigger", type, actived[1].row, actived[1].column, mode)
            /\ validRuleErr' =
                 (validRuleErr
                    \/ validCellRules(type, actived[1].row, actived[1].column, Undef).ruleErr)
       ELSE /\ cellCheck' = [IdleCheck EXCEPT !.pc = "done", !.by = "trigger",
                               !.result = [state |-> "resolved", value |-> "undefined"]]
            /\ UNCHANGED validRuleErr
  /\ lastClear' = <<>>
  /\ CheckUnchanged

\* validCellRules has settled: the then and the catch of lines 565-576
TriggerValidateSettled ==
  LET row == cellCheck.row[1]
      column == cellCheck.column[1]
      rule == cellCheck.errorRules[1]
  IN  /\ cellCheck.pc = "pending" /\ cellCheck.by = "trigger"
      /\ cellCheck.pend = {}
      /\ IF cellCheck.errorRules = <<>>
           THEN /\ validErrorMaps' =
                     IF cellCheck.mode = "row"
                       THEN clearValidate(validErrorMaps, One(row), One(Column(column)))
                       ELSE validErrorMaps
                /\ cellCheck' = [cellCheck EXCEPT !.pc = "done",
                                   !.result = [state |-> "resolved", value |-> "undefined"]]
           ELSE IF rule.trigger = NoTrigger \/ cellCheck.validType = rule.trigger
             THEN /\ validErrorMaps' =
                       showValidTooltip(validErrorMaps,
                                        [rule |-> rule, row |-> row, column |-> column])
                  /\ cellCheck' = [cellCheck EXCEPT !.pc = "done",
                                     !.result = [state |-> "rejected", value |-> "rest"],
                                     !.rest = <<CellRejection(cellCheck.errorRules)>>]
             ELSE /\ UNCHANGED validErrorMaps
                  /\ cellCheck' = [cellCheck EXCEPT !.pc = "done",
                                     !.result = [state |-> "resolved", value |-> "undefined"]]
      /\ lastClear' = <<>>
      /\ UNCHANGED validRuleErr
      /\ CheckUnchanged

\* showValidTooltip(params) called by another part of the grid, lines 585-619
ShowValidTooltip(params) ==
  /\ validErrorMaps' = showValidTooltip(validErrorMaps, params)
  /\ lastClear' = <<>>
  /\ UNCHANGED <<cellCheck, validRuleErr>>
  /\ CheckUnchanged

\* clearValidate(rows, fieldOrColumn) called at any time, lines 399-446
ClearValidateCall(rows, fieldOrColumn) ==
  /\ validErrorMaps' = clearValidate(validErrorMaps, rows, fieldOrColumn)
  /\ lastClear' = <<>>
  /\ UNCHANGED <<cellCheck, validRuleErr>>
  /\ CheckUnchanged

\* rules with triggers: a is required on change, b has its validator
RuleAOnChange ==
  MkRule(TRUE, "none", NoBound, NoBound, NoPattern, NoValidator, "change", "a is required")
TriggerRules ==
  [defined |-> TRUE,
   rules |-> <<[key |-> "a", value |-> <<RuleAOnChange>>], [key |-> "b", value |-> <<RuleB>>]>>]

InitTrigger ==
  /\ editRules = TriggerRules
  /\ msgMode = "single"
  /\ autoPos = TRUE
  /\ removeRowMaps = {}
  /\ pendingRowMaps = {}
  /\ treeConfig = FALSE
  /\ isRowGroupStatus = FALSE
  /\ InitState

\* the inputs of the calls
TriggerRowsArgs == {RowsOne(RowOf(1))}
TriggerFieldArgs == {Many(<<Field("b"), Field("a")>>)}
ActiveCells == {NoActive, Active(RowOf(1), ColB)}
TooltipParams == {[rule |-> BuiltinFailure(RuleA), row |-> RowOf(2), column |-> ColA]}
TriggerClearArgs == {<<NoArg, NoArg>>, <<One(RowOf(1)), One(Column(ColA))>>}

\* the four public methods, without a callback, while sessions are pending
OverlappingCalls ==
  \E s \in Sessions, rows \in TriggerRowsArgs, fc \in TriggerFieldArgs :
    \/ validate(s, rows, FALSE, TRUE)
    \/ fullValidate(s, rows, FALSE, TRUE)
    \/ validateField(s, rows, fc, TRUE)
    \/ fullValidateField(s, rows, fc, TRUE)

\* the callbacks of the sessions; validToReject is left at its default
TriggerCallbacks ==
  \E s \in Sessions :
    \/ \E i \in 1 .. Len(getColumns), o \in {"resolve", "rejectMessage"} :
         SettleValidator(s, i, 1, o)
    \/ Merge(s)
    \/ AfterMerge(s)
    \/ Catch(s)
    \/ PosAndFinish(s)
    \/ ShowTooltip(s)
    \/ TooltipShown(s)
    \/ Finish(s, "default")

NextTrigger ==
  \/ OverlappingCalls
  \/ TriggerCallbacks
  \/ \E actived \in ActiveCells, mode \in {"row", "cell"} :
       TriggerValidate("change", actived, mode)
  \/ \E j \in {1}, outcome \in {"resolve", "rejectMessage"} : SettleCellValidator(j, outcome)
  \/ TriggerValidateSettled
  \/ \E params \in TooltipParams : ShowValidTooltip(params)
  \/ \E args \in TriggerClearArgs : ClearValidateCall(args[1], args[2])

SpecTrigger == InitTrigger /\ [][NextTrigger]_vars

(***************************************************************************)
(* C24: in single-message mode the error map holds at most one entry in    *)
(* every reachable state, whatever the interleaving of validate,           *)
(* fullValidate, validateField, fullValidateField, clearValidate,          *)
(* triggerValidate and showValidTooltip, sessions that overlap and         *)
(* validators that are pending included.                                   *)
(***************************************************************************)
C24_SingleModeAtMostOneEntry == msgMode = "single" => Len(validErrorMaps) <= 1

\* in single-message mode a session that overlaps another has merged a
\* collection of two failures while a validator of triggerValidate is
\* pending: the map holds one entry
C24_Witness ==
  /\ msgMode = "single"
  /\ Len(validErrorMaps) = 1
  /\ cellCheck.pc = "pending" /\ cellCheck.by = "trigger" /\ cellCheck.pend # {}
  /\ \E s \in Live :
       /\ sess[s].pc = "merged" /\ Len(sess[s].validErrMaps) >= 2
       /\ sess[s].since # {}

(***************************************************************************)
(* C25: when every custom validator settles and the presentation actions   *)
(* (scroll, edit, tooltip) settle, every session settles its promise, and  *)
(* a callback that was supplied is called exactly once in the session, at  *)
(* the settlement: on success and on failure, fail-fast and exhaustive.    *)
(***************************************************************************)
C25_EverySessionSettles ==
  /\ \A s \in Sessions : (sess[s].pc # "idle") ~> Delivered(s)
  /\ [](\A s \in Live :
          /\ Delivered(s) <=> sess[s].result # NoResult
          /\ Len(sess[s].cbCalls) = IF Delivered(s) /\ sess[s].cb THEN 1 ELSE 0)

\* an exhaustive session with a callback has failed on a validator that
\* was pending, has positioned the grid and has called the callback once
C25_Witness ==
  \E s \in Live :
    LET q == sess[s]
    IN  /\ q.isFull /\ q.cb /\ Delivered(s)
        /\ q.cbCalls = <<"validRest">>
        /\ autoPos /\ q.fx = PositionedEffects(q)
        /\ \E i \in FailedCells(q) : ~FailsAtOnce(q.cells[i])

(***************************************************************************)
(* Sessions on rules that are all synchronous.                             *)
(***************************************************************************)
\* a is a number when it is given, c is required
RuleANumber ==
  MkRule(FALSE, "number", NoBound, NoBound, NoPattern, NoValidator, NoTrigger,
         "a is not a number")
RuleC == MkRule(TRUE, "none", NoBound, NoBound, NoPattern, NoValidator, NoTrigger, "c is required")
\* the validator of b returns an Error at once
RuleBRefuses ==
  MkRule(FALSE, "none", NoBound, NoBound, NoPattern, Inline("retError"), NoTrigger, "b is refused")
SyncRules ==
  {[defined |-> TRUE,
    rules |-> <<[key |-> "a", value |-> <<RuleA>>], [key |-> "c", value |-> <<RuleC>>]>>],
   [defined |-> TRUE,
    rules |-> <<[key |-> "c", value |-> <<RuleC>>], [key |-> "a", value |-> <<RuleANumber>>]>>],
   [defined |-> TRUE,
    rules |-> <<[key |-> "a", value |-> <<RuleANumber>>],
                [key |-> "b", value |-> <<RuleBRefuses>>]>>]}

InitSync ==
  /\ treeConfig = FALSE
  /\ isRowGroupStatus = FALSE
  /\ editRules \in SyncRules
  /\ msgMode \in {"single", "multi"}
  /\ autoPos \in BOOLEAN
  /\ removeRowMaps = {}
  /\ pendingRowMaps = {}
  /\ InitState

SyncFieldArgs ==
  {NoArg, One(Field("a")), Many(<<Field("c"), Field("a")>>),
   Many(<<Field("b"), Field("a")>>)}

\* the callbacks of a session with no validator pending
SyncCallbacks ==
  \E s \in Sessions :
    \/ Merge(s)
    \/ AfterMerge(s)
    \/ Catch(s)
    \/ PosAndFinish(s)
    \/ ShowTooltip(s)
    \/ TooltipShown(s)
    \/ \E validToReject \in {"obsolete", "default"} : Finish(s, validToReject)

NextSync ==
  \/ Calls(FALSE, RowsArgs, SyncFieldArgs)
  \/ SyncCallbacks
  \/ \E s \in Sessions : Forget(s)

SpecSync == InitSync /\ [][NextSync]_vars

\* the check of the eligible cell p of a session
CheckAt(q, p) == validCellRules("all", q.validList[p[1]], q.columns[p[2]], Undef)
\* no rule of the session calls a validator that returns a promise
SyncOnly(q) == \A p \in EligibleCells(q) : CheckAt(q, p).pend = {}
\* the eligible cells whose rules fail
FailingPlaces(q) == {p \in EligibleCells(q) : CheckAt(q, p).errorRules # <<>>}
\* the first of them in the walk: rows in traversal order, then columns
FirstFailing(q) ==
  CHOOSE p \in FailingPlaces(q) :
    \A o \in FailingPlaces(q) : p[1] < o[1] \/ (p[1] = o[1] /\ p[2] <= o[2])

(***************************************************************************)
(* C26: in a session that fails and whose rules are all synchronous, the   *)
(* cell passed to the scroll, the focus and the tooltip is the first       *)
(* failing cell in walk order (rows in traversal order, columns in column  *)
(* order within a row), and its failure is in the failure map that is      *)
(* delivered; in fail-fast and in exhaustive mode.                         *)
(***************************************************************************)
C26_PositionsFirstFailingCell ==
  \A s \in Live :
    LET q == sess[s]
    IN  (SyncOnly(q) /\ Rejected(q)) =>
          /\ FailingPlaces(q) # {}
          /\ LET p == FirstFailing(q)
                 first == q.firstErrParams[1]
             IN  /\ first.row = q.validList[p[1]]
                 /\ first.column = q.columns[p[2]]
                 /\ first.rules = CheckAt(q, p).errorRules
                 /\ first.rule = first.rules[1]
                 /\ Did(q, "showValidTooltip") =>
                      /\ ObjHas(validErrorMaps, ValidKey(first.row, first.column))
                      /\ ObjGet(validErrorMaps, ValidKey(first.row, first.column)).rule
                           = first.rule
                 /\ Delivered(s) => first \in RestRecords(q)

\* an exhaustive session has positioned the grid on a cell of the first
\* row, in the second of its columns, while a later row has failed in the
\* first column: the first field of the failure map is not the first column
C26_Witness ==
  \E s \in Live :
    LET q == sess[s]
    IN  /\ q.isFull /\ SyncOnly(q) /\ Rejected(q) /\ Delivered(s)
        /\ Did(q, "showValidTooltip")
        /\ FirstFailing(q)[2] > 1
        /\ \E o \in FailingPlaces(q) : o[1] > FirstFailing(q)[1] /\ o[2] = 1

====
